---- MODULE Spec2Model ----
(***************************************************************************)
(* SSH control-socket lifecycle manager (axhxrx/sshit).                    *)
(*                                                                         *)
(* One socket path is shared by the callers, the SSH master process and    *)
(* other parties of the filesystem.  Each caller runs one operation at a   *)
(* time; an operation is a sequence of awaited steps (stat, the SSH client,*)
(* unlink), and the world may change between two steps.                    *)
(*                                                                         *)
(* Text (stderr) is a sequence of phrase tokens; a pattern is a sequence   *)
(* of tokens and String.includes is contiguous sub-sequence search.        *)
(***************************************************************************)
EXTENDS Integers, Sequences, FiniteSets, TLC

VARIABLES
    fileExists,     \* the socket file is present at the path
    master,         \* the SSH master process of the path
    everCreated,    \* history: some Create has produced the socket
    tornDown,       \* history: a TearDown returned success, no Create since
    tdRan,          \* history: a TearDown returned (success or failure), no Create since
    op,             \* per caller: the operation it runs
    pc,             \* per caller: its position in the operation
    saw,            \* per caller: what its stat() found
    child,          \* per caller: what became of the SSH child process
    sshCalls,       \* per caller: SSH client invocations of this run
    rmCalls,        \* per caller: RemoveSocketFileOp invocations of this run
    exitOutcome,    \* per caller: TearDown's exitOutcome
    removeOutcome,  \* per caller: the outcome of RemoveSocketFileOp
    result,         \* per caller: the outcome the operation returned
    tdAtStat,       \* per caller (Check, Exec): tdRan and tornDown as they were at stat()
    snap,           \* per caller: whether the SSH client met a live master on the socket
    unlinkErrno,          \* per caller: what unlink() answered
    cImpl,          \* classification run: which SSHCreateSocketOp source
    cExit,          \* classification run: exit code of the SSH client
    cStderr,        \* classification run: captured stderr
    cPc,            \* classification run: position
    cResult,        \* classification run: outcome of the operation
    pHost,          \* path resolution: the host string, one character per element
    pSocketPath,    \* path resolution: the explicit socketPath option
    pPc,            \* path resolution: position
    pPaths,         \* path resolution: what the calls of #getSocketPath returned
    rPc,            \* command run: position of the caller of runCommand
    rChild,         \* command run: the child process
    rTimeout,       \* command run: the timeout option the operation was given
    rEmitted,       \* command run: history, the chunks the child wrote, in arrival order
    rStdoutChunks,  \* command run: stdoutChunks
    rStderrChunks,  \* command run: stderrChunks
    rEvents,        \* command run: history, the 'close' and 'error' events fired so far
    rPromise,       \* command run: state of the returned promise
    rResult,        \* command run: the value the promise settled with
    rResolves,      \* command run: history, calls of resolve()
    kOp,            \* command line: the operation of the entry point
    kJson,          \* command line: --json given
    kArgs,          \* command line: required arguments given
    kOutcome,       \* command line: outcome of op.run()
    kPc,            \* command line: position
    kExit,          \* command line: exit code of the process
    tdLog,          \* two teardowns: history, what each caller's TearDown returned
    root,           \* main() running SSHitRootOp: position, menu, outcome, next op, result
    rootOp,         \* the tunnel manager's RootOp: position, results, tunnels added
    state           \* the tunnel manager's AppState: { tunnels }

vars == <<fileExists, master, everCreated, tornDown, tdRan, op, pc, saw, child,
          sshCalls, rmCalls, exitOutcome, removeOutcome, result, tdAtStat, snap, unlinkErrno,
          cImpl, cExit, cStderr, cPc, cResult, pHost, pSocketPath, pPc, pPaths,
          rPc, rChild, rTimeout, rEmitted, rStdoutChunks, rStderrChunks, rEvents,
          rPromise, rResult, rResolves, kOp, kJson, kArgs, kOutcome, kPc, kExit, tdLog,
          root, rootOp, state>>

lifeVars == <<fileExists, master, everCreated, tornDown, tdRan, op, pc, saw, child,
              sshCalls, rmCalls, exitOutcome, removeOutcome, result, tdAtStat,
              snap, unlinkErrno>>

classVars == <<cImpl, cExit, cStderr, cPc, cResult>>

pathVars == <<pHost, pSocketPath, pPc, pPaths>>

runVars == <<rPc, rChild, rTimeout, rEmitted, rStdoutChunks, rStderrChunks, rEvents,
             rPromise, rResult, rResolves>>

cliVars == <<kOp, kJson, kArgs, kOutcome, kPc, kExit>>

menuVars == <<root, rootOp, state>>

----------------------------------------------------------------------------
(* Bounds *)

NumCallers == 2
MaxStderrLen == 2

Callers == 1..NumCallers

----------------------------------------------------------------------------
(* Text *)

RECURSIVE SeqsUpTo(_, _)
SeqsUpTo(S, n) ==
    IF n = 0 THEN {<<>>}
    ELSE LET shorter == SeqsUpTo(S, n - 1)
         IN  shorter \cup {Append(s, x) : s \in {t \in shorter : Len(t) = n - 1}, x \in S}

\* String.prototype.includes
Includes(text, pattern) ==
    \E i \in 1..(Len(text) - Len(pattern) + 1) :
        SubSeq(text, i, i + Len(pattern) - 1) = pattern

----------------------------------------------------------------------------
(* Outcomes of @axhxrx/ops: this.succeed(value), this.fail(failure, debugData) *)

Succeed(v) == [ok |-> TRUE, value |-> v]
Fail(f, d) == [ok |-> FALSE, failure |-> f, debugData |-> d]
NoOutcome == [ok |-> FALSE, failure |-> "none", debugData |-> <<>>]

----------------------------------------------------------------------------
(* The command execution service *)

NullCode == -1
NoChild == [kind |-> "none", code |-> 0, stderr |-> <<>>]
Closed(code, stderr) == [kind |-> "close", code |-> code, stderr |-> stderr]
SpawnError(message) == [kind |-> "error", code |-> 0, stderr |-> message]
Thrown(message) == [kind |-> "throw", code |-> 0, stderr |-> message]

\* runCommand / runCommandBuffers: the promise resolves on 'close' or 'error'
runCommand(c) ==
    IF c.kind = "close"
    THEN [exitCode |-> IF c.code = NullCode THEN 1 ELSE c.code, stderr |-> c.stderr]
    ELSE [exitCode |-> 1, stderr |-> c.stderr]

----------------------------------------------------------------------------
(* Phrase tokens of the SSH client's stderr *)

PermissionDenied == "Permission denied"
Publickey == " (publickey"
AuthenticationFailed == "Authentication failed"
HostIdChanged == "REMOTE HOST IDENTIFICATION HAS CHANGED"
HostKeyFailed == "Host key verification failed"
CouldNotResolve == "Could not resolve hostname"
NameNotKnown == "Name or service not known"
ConnectionRefused == "Connection refused"
NetworkUnreachable == "Network is unreachable"
NoRouteToHost == "No route to host"
BrokenPipe == "Broken pipe"
OperationTimedOut == "Operation timed out"
ConnectionTimedOut == "Connection timed out"
ConnectionReset == "Connection reset"
NoSuchFileUpper == "No such file"
NoSuchFileLower == "no such file"
ControlSocket == "Control socket"
Dead == "dead"
OtherText == "..."

CreateTokens ==
    {PermissionDenied, Publickey, AuthenticationFailed, HostIdChanged, HostKeyFailed,
     CouldNotResolve, NameNotKnown, ConnectionRefused, NetworkUnreachable,
     NoRouteToHost, BrokenPipe, OperationTimedOut, ConnectionTimedOut, OtherText}

Debug(prefix, code, text) == [prefix |-> prefix, code |-> code, text |-> text]

----------------------------------------------------------------------------
(* SSHCreateSocketOp.run after the SSH client has returned *)

SocketInfo == [path |-> "socketPath", host |-> "host"]

\* faulty variant: the network patterns are tried before the hostname patterns
ClassifyCreateNetworkFirst(exitCode, stderr) ==
    IF Includes(stderr, <<PermissionDenied, Publickey>>)
    THEN Fail("PermissionDenied", Debug("", 0, stderr))
    ELSE IF Includes(stderr, <<PermissionDenied>>) \/ Includes(stderr, <<AuthenticationFailed>>)
    THEN Fail("AuthenticationFailed", Debug("", 0, stderr))
    ELSE IF Includes(stderr, <<HostIdChanged>>) \/ Includes(stderr, <<HostKeyFailed>>)
    THEN Fail("HostKeyVerificationFailed", Debug("", 0, stderr))
    ELSE IF \/ Includes(stderr, <<ConnectionRefused>>)
            \/ Includes(stderr, <<NetworkUnreachable>>)
            \/ Includes(stderr, <<NoRouteToHost>>)
            \/ Includes(stderr, <<BrokenPipe>>)
    THEN Fail("ConnectionRefused", Debug("", 0, stderr))
    ELSE IF Includes(stderr, <<CouldNotResolve>>) \/ Includes(stderr, <<NameNotKnown>>)
    THEN Fail("HostNotFound", Debug("", 0, stderr))
    ELSE IF Includes(stderr, <<OperationTimedOut>>) \/ Includes(stderr, <<ConnectionTimedOut>>)
    THEN Fail("Timeout", Debug("", 0, stderr))
    ELSE Fail("UnknownError", Debug("Exit code", exitCode, stderr))

\* the ordered classification of SSHCreateSocketOp.ts
ClassifyCreate(exitCode, stderr) ==
    IF Includes(stderr, <<PermissionDenied, Publickey>>)
    THEN Fail("PermissionDenied", Debug("", 0, stderr))
    ELSE IF Includes(stderr, <<PermissionDenied>>) \/ Includes(stderr, <<AuthenticationFailed>>)
    THEN Fail("AuthenticationFailed", Debug("", 0, stderr))
    ELSE IF Includes(stderr, <<HostIdChanged>>) \/ Includes(stderr, <<HostKeyFailed>>)
    THEN Fail("HostKeyVerificationFailed", Debug("", 0, stderr))
    ELSE IF Includes(stderr, <<CouldNotResolve>>) \/ Includes(stderr, <<NameNotKnown>>)
    THEN Fail("HostNotFound", Debug("", 0, stderr))
    ELSE IF \/ Includes(stderr, <<ConnectionRefused>>)
            \/ Includes(stderr, <<NetworkUnreachable>>)
            \/ Includes(stderr, <<NoRouteToHost>>)
            \/ Includes(stderr, <<BrokenPipe>>)
    THEN Fail("ConnectionRefused", Debug("", 0, stderr))
    ELSE IF Includes(stderr, <<OperationTimedOut>>) \/ Includes(stderr, <<ConnectionTimedOut>>)
    THEN Fail("Timeout", Debug("", 0, stderr))
    ELSE Fail("UnknownError", Debug("Exit code", exitCode, stderr))

\* the ordered classification of the stand-alone SSHCreateSocketOp (unnamed/part_000)
ClassifyCreateStandalone(exitCode, stderr) ==
    IF Includes(stderr, <<PermissionDenied>>) \/ Includes(stderr, <<AuthenticationFailed>>)
    THEN Fail("AuthenticationFailed", Debug("", 0, stderr))
    ELSE IF Includes(stderr, <<HostIdChanged>>) \/ Includes(stderr, <<HostKeyFailed>>)
    THEN Fail("HostKeyVerificationFailed", Debug("", 0, stderr))
    ELSE IF Includes(stderr, <<CouldNotResolve>>) \/ Includes(stderr, <<NameNotKnown>>)
    THEN Fail("HostNotFound", Debug("", 0, stderr))
    ELSE IF Includes(stderr, <<ConnectionRefused>>)
    THEN Fail("ConnectionRefused", Debug("", 0, stderr))
    ELSE IF Includes(stderr, <<OperationTimedOut>>) \/ Includes(stderr, <<ConnectionTimedOut>>)
    THEN Fail("Timeout", Debug("", 0, stderr))
    ELSE IF Includes(stderr, <<PermissionDenied, Publickey>>)
    THEN Fail("PermissionDenied", Debug("", 0, stderr))
    ELSE Fail("UnknownError", Debug("Exit code", exitCode, stderr))

\* faulty variant: success decided by an empty stderr instead of the exit code
CreateOutcomeByStderr(r) ==
    IF r.stderr = <<>> THEN Succeed(SocketInfo) ELSE ClassifyCreate(r.exitCode, r.stderr)

CreateOutcome(r) ==
    IF r.exitCode = 0 THEN Succeed(SocketInfo) ELSE ClassifyCreate(r.exitCode, r.stderr)

CreateOutcomeStandalone(r) ==
    IF r.exitCode = 0 THEN Succeed(SocketInfo)
    ELSE ClassifyCreateStandalone(r.exitCode, r.stderr)

----------------------------------------------------------------------------
(* SSHCheckSocketOp, SSHExecOp, SSHExitSocketOp after the SSH client has returned *)

SocketNotFound == Fail("SocketNotFound", Debug("Control socket does not exist", 0, <<>>))

\* faulty variant: liveness read off an empty stderr instead of the exit code
CheckOutcomeByStderr(r) ==
    IF r.stderr = <<>> THEN Succeed("alive") ELSE Succeed("dead")

\* faulty variant: a nonzero exit of the check command surfaced as a failure
CheckOutcomeDeadFails(r) ==
    IF r.exitCode = 0 THEN Succeed("alive")
    ELSE Fail("UnknownError", Debug("", 0, r.stderr))

CheckOutcome(r) ==
    IF r.exitCode = 0 THEN Succeed("alive") ELSE Succeed("dead")

\* faulty variant: every nonzero exit code taken for a failed transport
ExecOutcomeNonzeroFails(r) ==
    IF r.exitCode # 0
    THEN Fail("ConnectionFailed", Debug("Exit 255", 0, r.stderr))
    ELSE Succeed([exitCode |-> r.exitCode, stderr |-> r.stderr])

\* faulty variant: the timeout patterns are tried before the connection patterns
ExecOutcomeTimeoutFirst(r) ==
    IF r.exitCode = 255
    THEN IF Includes(r.stderr, <<NoSuchFileUpper>>) \/ Includes(r.stderr, <<NoSuchFileLower>>)
         THEN Fail("SocketNotFound", Debug("", 0, r.stderr))
         ELSE IF Includes(r.stderr, <<OperationTimedOut>>) \/ Includes(r.stderr, <<ConnectionTimedOut>>)
         THEN Fail("Timeout", Debug("", 0, r.stderr))
         ELSE IF Includes(r.stderr, <<ConnectionRefused>>) \/ Includes(r.stderr, <<ConnectionReset>>)
         THEN Fail("ConnectionFailed", Debug("", 0, r.stderr))
         ELSE IF Includes(r.stderr, <<ControlSocket>>) /\ Includes(r.stderr, <<Dead>>)
         THEN Fail("SocketDead", Debug("", 0, r.stderr))
         ELSE Fail("ConnectionFailed", Debug("Exit 255", 0, r.stderr))
    ELSE Succeed([exitCode |-> r.exitCode, stderr |-> r.stderr])

ExecOutcome(r) ==
    IF r.exitCode = 255
    THEN IF Includes(r.stderr, <<NoSuchFileUpper>>) \/ Includes(r.stderr, <<NoSuchFileLower>>)
         THEN Fail("SocketNotFound", Debug("", 0, r.stderr))
         ELSE IF Includes(r.stderr, <<ConnectionRefused>>) \/ Includes(r.stderr, <<ConnectionReset>>)
         THEN Fail("ConnectionFailed", Debug("", 0, r.stderr))
         ELSE IF Includes(r.stderr, <<OperationTimedOut>>) \/ Includes(r.stderr, <<ConnectionTimedOut>>)
         THEN Fail("Timeout", Debug("", 0, r.stderr))
         ELSE IF Includes(r.stderr, <<ControlSocket>>) /\ Includes(r.stderr, <<Dead>>)
         THEN Fail("SocketDead", Debug("", 0, r.stderr))
         ELSE Fail("ConnectionFailed", Debug("Exit 255", 0, r.stderr))
    ELSE Succeed([exitCode |-> r.exitCode, stderr |-> r.stderr])

\* faulty variant: any answer of the exit command taken for a clean exit
ExitOutcomeAlwaysClean(r) == Succeed(TRUE)

\* faulty variant: a nonzero exit of the exit command surfaced as a failure
ExitOutcomeNonzeroFails(r) ==
    IF r.exitCode = 0 THEN Succeed(TRUE)
    ELSE Fail("UnknownError", Debug("", 0, r.stderr))

ExitOutcome(r) == Succeed(r.exitCode = 0)

\* catch (error) { return this.fail('UnknownError', message) }
Caught(c) == Fail("UnknownError", Debug("", 0, c.stderr))

----------------------------------------------------------------------------
(* RemoveSocketFileOp.run: the unlinkErrno of unlink() to an outcome *)

\* faulty variant: EPERM not recognised as a permission error
RemoveOutcomeWithoutEperm(errno) ==
    IF errno = "OK" THEN Succeed(TRUE)
    ELSE IF errno = "ENOENT" THEN Fail("FileNotFound", Debug("File does not exist", 0, <<>>))
    ELSE IF errno = "EACCES"
    THEN Fail("PermissionDenied", Debug("Permission denied", 0, <<>>))
    ELSE Fail("UnknownError", Debug("", 0, <<errno>>))

RemoveOutcome(errno) ==
    IF errno = "OK" THEN Succeed(TRUE)
    ELSE IF errno = "ENOENT" THEN Fail("FileNotFound", Debug("File does not exist", 0, <<>>))
    ELSE IF errno = "EACCES" \/ errno = "EPERM"
    THEN Fail("PermissionDenied", Debug("Permission denied", 0, <<>>))
    ELSE Fail("UnknownError", Debug("", 0, <<errno>>))

----------------------------------------------------------------------------
(* TearDownSocketOp.run and ValidateSocketOp.run, on their sub-operations' outcomes *)

\* let exitedCleanly = false; if (exitOutcome.ok) exitedCleanly = exitOutcome.value
ExitedCleanly(eo) == IF eo.ok THEN eo.value ELSE FALSE

\* faulty variant: Exit's SocketNotFound not taken for the end of the teardown
TearDownNeverShortCircuits(eo) == FALSE

\* if (!exitOutcome.ok && exitOutcome.failure === 'SocketNotFound') return ...
TearDownShortCircuits(eo) == ~eo.ok /\ eo.failure = "SocketNotFound"

\* faulty variant: every failure of the removal absorbed
TearDownAbsorbsAll(eo, ro) ==
    IF ~eo.ok /\ eo.failure = "SocketNotFound"
    THEN Succeed([exitedCleanly |-> FALSE, fileRemoved |-> FALSE])
    ELSE Succeed([exitedCleanly |-> ExitedCleanly(eo), fileRemoved |-> ro.ok])

\* faulty variant: FileNotFound of the removal not absorbed
TearDownAbsorbsNothing(eo, ro) ==
    IF ~eo.ok /\ eo.failure = "SocketNotFound"
    THEN Succeed([exitedCleanly |-> FALSE, fileRemoved |-> FALSE])
    ELSE IF ~ro.ok THEN Fail("RemoveFailed", ro.debugData)
    ELSE Succeed([exitedCleanly |-> ExitedCleanly(eo), fileRemoved |-> TRUE])

\* faulty variant: a failure of Exit other than SocketNotFound ends the teardown
TearDownPropagatesExit(eo, ro) ==
    IF ~eo.ok /\ eo.failure = "SocketNotFound"
    THEN Succeed([exitedCleanly |-> FALSE, fileRemoved |-> FALSE])
    ELSE IF ~eo.ok THEN Fail("UnknownError", eo.debugData)
    ELSE IF ~ro.ok
    THEN IF ro.failure = "FileNotFound"
         THEN Succeed([exitedCleanly |-> eo.value, fileRemoved |-> FALSE])
         ELSE Fail("RemoveFailed", ro.debugData)
    ELSE Succeed([exitedCleanly |-> eo.value, fileRemoved |-> TRUE])

\* faulty variant: the failure of the removal handed on under its own kind
TearDownPassesFailure(eo, ro) ==
    IF ~eo.ok /\ eo.failure = "SocketNotFound"
    THEN Succeed([exitedCleanly |-> FALSE, fileRemoved |-> FALSE])
    ELSE IF ~ro.ok
    THEN IF ro.failure = "FileNotFound"
         THEN Succeed([exitedCleanly |-> ExitedCleanly(eo), fileRemoved |-> FALSE])
         ELSE Fail(ro.failure, ro.debugData)
    ELSE Succeed([exitedCleanly |-> ExitedCleanly(eo), fileRemoved |-> TRUE])

\* faulty variant: a file that was already gone reported as removed
TearDownReportsRemoved(eo, ro) ==
    IF ~eo.ok /\ eo.failure = "SocketNotFound"
    THEN Succeed([exitedCleanly |-> FALSE, fileRemoved |-> FALSE])
    ELSE IF ~ro.ok
    THEN IF ro.failure = "FileNotFound"
         THEN Succeed([exitedCleanly |-> ExitedCleanly(eo), fileRemoved |-> TRUE])
         ELSE Fail("RemoveFailed", ro.debugData)
    ELSE Succeed([exitedCleanly |-> ExitedCleanly(eo), fileRemoved |-> TRUE])

TearDownOutcome(eo, ro) ==
    IF TearDownShortCircuits(eo)
    THEN Succeed([exitedCleanly |-> FALSE, fileRemoved |-> FALSE])
    ELSE IF ~ro.ok
    THEN IF ro.failure = "FileNotFound"
         THEN Succeed([exitedCleanly |-> ExitedCleanly(eo), fileRemoved |-> FALSE])
         ELSE Fail("RemoveFailed", ro.debugData)
    ELSE Succeed([exitedCleanly |-> ExitedCleanly(eo), fileRemoved |-> TRUE])

\* faulty variant: Check's failure handed on as it is
ValidateOutcomePropagates(co) ==
    IF ~co.ok
    THEN Fail(co.failure, co.debugData)
    ELSE Succeed([valid |-> (co.value = "alive"), status |-> co.value])

ValidateOutcome(co) ==
    IF ~co.ok
    THEN IF co.failure = "SocketNotFound"
         THEN Succeed([valid |-> FALSE, status |-> "not-found"])
         ELSE Fail("UnknownError", co.debugData)
    ELSE Succeed([valid |-> (co.value = "alive"), status |-> co.value])

----------------------------------------------------------------------------
(* The world: what the SSH client and the filesystem answer *)

MasterStates == {"gone", "alive", "dead", "exiting"}
RemoteCodes == {0, 1, 254, 255}

ExecStderrSamples ==
    {<<>>, <<ControlSocket, NoSuchFileUpper>>, <<ConnectionRefused>>,
     <<ControlSocket, Dead>>, <<OtherText>>}

CreateStderrSamples ==
    {<<PermissionDenied, Publickey>>, <<PermissionDenied>>, <<CouldNotResolve>>, <<OtherText>>}

\* the child never ran to an exit of its own: killed by a signal (close with a
\* null code), not spawned ('error' event), or spawn() itself threw
ChildFaults ==
    {Closed(NullCode, <<>>), SpawnError(<<"spawn ssh ENOENT">>), Thrown(<<"ERR_INVALID_ARG_VALUE">>)}

Reachable(file, m) == file /\ m = "alive"

\* ssh -S path -O check host
SshCheckChildren(file, m) ==
    ChildFaults \cup
    {IF Reachable(file, m) THEN Closed(0, <<"Master running">>)
     ELSE Closed(255, <<ControlSocket, OtherText>>)}

\* ssh -S path -O exit host
SshExitChildren(file, m) ==
    ChildFaults \cup
    {IF Reachable(file, m) THEN Closed(0, <<"Exit request sent">>)
     ELSE Closed(255, <<ControlSocket, OtherText>>)}

\* ssh -S path -o ControlMaster=no host command
SshExecChildren(file, m) ==
    ChildFaults \cup
    {Closed(c, e) : c \in (IF Reachable(file, m) THEN RemoteCodes ELSE {255}),
                    e \in ExecStderrSamples}

\* ssh -M -S path -fN host
SshCreateCanSucceed(file, m) == m # "exiting" /\ ~Reachable(file, m)

SshCreateChildren(file, m) ==
    ChildFaults \cup
    {Closed(255, e) : e \in CreateStderrSamples} \cup
    (IF SshCreateCanSucceed(file, m) THEN {Closed(0, <<>>)} ELSE {})

\* unlink(path)
UnlinkErrnos(file) == IF file THEN {"OK", "EACCES", "EPERM", "EIO"} ELSE {"ENOENT"}

----------------------------------------------------------------------------
(* Callers *)

Ops == {"Create", "Check", "Exec", "Exit", "Remove", "TearDown", "Validate"}

FirstStep(o) ==
    IF o = "Create" THEN "ssh" ELSE IF o = "Remove" THEN "unlink" ELSE "stat"

NoTearDown == [ran |-> FALSE, ok |-> FALSE]
NoSnap == FALSE

\* nobody runs a lifecycle operation
NoCallers ==
    /\ fileExists = FALSE
    /\ master = "gone"
    /\ everCreated = FALSE
    /\ tornDown = FALSE
    /\ tdRan = FALSE
    /\ op = [p \in Callers |-> "none"]
    /\ pc = [p \in Callers |-> "idle"]
    /\ saw = [p \in Callers |-> "unknown"]
    /\ child = [p \in Callers |-> NoChild]
    /\ sshCalls = [p \in Callers |-> 0]
    /\ rmCalls = [p \in Callers |-> 0]
    /\ exitOutcome = [p \in Callers |-> NoOutcome]
    /\ removeOutcome = [p \in Callers |-> NoOutcome]
    /\ result = [p \in Callers |-> NoOutcome]
    /\ tdAtStat = [p \in Callers |-> NoTearDown]
    /\ snap = [p \in Callers |-> NoSnap]
    /\ unlinkErrno = [p \in Callers |-> "none"]

\* no classification run
NoClassification ==
    /\ cImpl = "none"
    /\ cExit = 0
    /\ cStderr = <<>>
    /\ cPc = "off"
    /\ cResult = NoOutcome

\* no path resolution
NoPath == [given |-> FALSE, text |-> <<>>]

NoResolution ==
    /\ pHost = <<>>
    /\ pSocketPath = NoPath
    /\ pPc = "off"
    /\ pPaths = <<>>

\* no command run
NoShellResult == [exitCode |-> 0, stdout |-> <<>>, stderr |-> <<>>]

NoRun ==
    /\ rPc = "off"
    /\ rChild = "none"
    /\ rTimeout = 0
    /\ rEmitted = <<>>
    /\ rStdoutChunks = <<>>
    /\ rStderrChunks = <<>>
    /\ rEvents = <<>>
    /\ rPromise = "none"
    /\ rResult = NoShellResult
    /\ rResolves = 0

\* no command-line entry point
NoCli ==
    /\ kOp = "none"
    /\ kJson = FALSE
    /\ kArgs = "none"
    /\ kOutcome = NoOutcome
    /\ kPc = "off"
    /\ kExit = 0

\* no interactive program
NoOptions == [version |-> FALSE]

NoRootOp == [op |-> "none", exitCode |-> 0]

NoRoot ==
    [pc |-> "off", argv |-> <<>>, options |-> NoOptions, shown |-> 0, menu |-> <<>>,
     outcome |-> NoOutcome, next |-> NoRootOp, result |-> NoOutcome, exitCode |-> 0]

NoTunnelManager ==
    [pc |-> "off", menuResult |-> NoOutcome, addResult |-> NoOutcome,
     outcome |-> NoOutcome, added |-> 0]

NoMenus ==
    /\ root = NoRoot
    /\ rootOp = NoTunnelManager
    /\ state = [tunnels |-> <<>>]

\* a caller's teardown as its caller saw it: the outcome, and what unlink answered
NoEntry == [outcome |-> NoOutcome, unlinkErrno |-> "none"]

\* no teardown logged
NoLog == tdLog = [p \in Callers |-> NoEntry]

\* nothing but the lifecycle operations
NoSideRuns == NoRun /\ NoCli /\ NoLog /\ NoMenus

Init == NoCallers /\ NoClassification /\ NoResolution /\ NoSideRuns

\* `await op.run()` resumes its caller as soon as the operation resolves: no
\* other step comes between an operation's last step and Return
NoneDone == \A q \in Callers : pc[q] # "done"

\* new XxxOp(socketPath, host).run()
Begin(p) ==
    /\ NoneDone
    /\ pc[p] = "idle"
    /\ \E o \in Ops :
        /\ op' = [op EXCEPT ![p] = o]
        /\ pc' = [pc EXCEPT ![p] = FirstStep(o)]
    /\ UNCHANGED <<fileExists, master, everCreated, tornDown, tdRan, saw, child, sshCalls,
                   rmCalls, exitOutcome, removeOutcome, result, tdAtStat, snap, unlinkErrno>>
    /\ UNCHANGED <<classVars, pathVars, runVars, cliVars, tdLog, menuVars>>

\* the caller has taken the outcome; the operation object is dropped
Return(p) ==
    /\ pc[p] = "done"
    /\ op' = [op EXCEPT ![p] = "none"]
    /\ pc' = [pc EXCEPT ![p] = "idle"]
    /\ saw' = [saw EXCEPT ![p] = "unknown"]
    /\ child' = [child EXCEPT ![p] = NoChild]
    /\ sshCalls' = [sshCalls EXCEPT ![p] = 0]
    /\ rmCalls' = [rmCalls EXCEPT ![p] = 0]
    /\ exitOutcome' = [exitOutcome EXCEPT ![p] = NoOutcome]
    /\ removeOutcome' = [removeOutcome EXCEPT ![p] = NoOutcome]
    /\ result' = [result EXCEPT ![p] = NoOutcome]
    /\ tdAtStat' = [tdAtStat EXCEPT ![p] = NoTearDown]
    /\ snap' = [snap EXCEPT ![p] = NoSnap]
    /\ unlinkErrno' = [unlinkErrno EXCEPT ![p] = "none"]
    /\ UNCHANGED <<fileExists, master, everCreated, tornDown, tdRan>>
    /\ UNCHANGED <<classVars, pathVars, runVars, cliVars, tdLog, menuVars>>

\* try { await stat(this.socketPath) } catch { return this.fail('SocketNotFound', ...) }
\* in SSHCheckSocketOp, SSHExecOp and SSHExitSocketOp, also when run by
\* ValidateSocketOp and TearDownSocketOp
\* faulty variant: the existence check lets an absent file through
StatNeverFails(present) == FALSE

StatFails(present) == ~present

\* what the operation does with its sub-operation's SocketNotFound
AfterSocketNotFound(o) ==
    IF o = "Validate" THEN [returns |-> TRUE, outcome |-> ValidateOutcome(SocketNotFound)]
    ELSE IF o = "TearDown"
    THEN [returns |-> TearDownShortCircuits(SocketNotFound),
          outcome |-> TearDownOutcome(SocketNotFound, NoOutcome)]
    ELSE [returns |-> TRUE, outcome |-> SocketNotFound]

Stat(p) ==
    /\ NoneDone
    /\ pc[p] = "stat"
    /\ saw' = [saw EXCEPT ![p] = IF fileExists THEN "present" ELSE "absent"]
    /\ tdAtStat' = [tdAtStat EXCEPT ![p] =
                        IF op[p] \in {"Check", "Exec"}
                        THEN [ran |-> tdRan, ok |-> tornDown] ELSE NoTearDown]
    /\ IF ~StatFails(fileExists)
       THEN /\ pc' = [pc EXCEPT ![p] = "ssh"]
            /\ UNCHANGED <<result, exitOutcome, tornDown, tdRan>>
       ELSE /\ exitOutcome' = [exitOutcome EXCEPT ![p] =
                                  IF op[p] = "TearDown" THEN SocketNotFound ELSE @]
            /\ IF AfterSocketNotFound(op[p]).returns
               THEN /\ result' = [result EXCEPT ![p] = AfterSocketNotFound(op[p]).outcome]
                    /\ tornDown' = (tornDown \/ (op[p] = "TearDown" /\ result'[p].ok))
                    /\ tdRan' = (tdRan \/ op[p] = "TearDown")
                    /\ pc' = [pc EXCEPT ![p] = "done"]
               ELSE /\ pc' = [pc EXCEPT ![p] = "unlink"]
                    /\ UNCHANGED <<result, tornDown, tdRan>>
    /\ UNCHANGED <<fileExists, master, everCreated, op, child, sshCalls, rmCalls,
                   removeOutcome, snap, unlinkErrno>>
    /\ UNCHANGED <<classVars, pathVars, runVars, cliVars, tdLog, menuVars>>

\* the outcome of an operation's try block around the SSH client
Guarded(c, outcome) ==
    IF c.kind = "throw" THEN Caught(c) ELSE outcome

\* SSHCheckSocketOp.run from runCommand on; ValidateSocketOp.run wraps it
CheckSsh(p) ==
    /\ NoneDone
    /\ pc[p] = "ssh"
    /\ op[p] \in {"Check", "Validate"}
    /\ \E c \in SshCheckChildren(fileExists, master) :
        /\ child' = [child EXCEPT ![p] = c]
        /\ result' = [result EXCEPT ![p] =
                         IF op[p] = "Validate"
                         THEN ValidateOutcome(Guarded(c, CheckOutcome(runCommand(c))))
                         ELSE Guarded(c, CheckOutcome(runCommand(c)))]
    /\ sshCalls' = [sshCalls EXCEPT ![p] = @ + 1]
    /\ pc' = [pc EXCEPT ![p] = "done"]
    /\ snap' = [snap EXCEPT ![p] = Reachable(fileExists, master)]
    /\ UNCHANGED <<fileExists, master, everCreated, tornDown, tdRan, op, saw, rmCalls,
                   exitOutcome, removeOutcome, tdAtStat, unlinkErrno>>
    /\ UNCHANGED <<classVars, pathVars, runVars, cliVars, tdLog, menuVars>>

\* faulty variant: the client run by Exec unlinks a socket file it cannot reach,
\* as it would without ControlMaster=no
ExecSshUnlinksStale(p) ==
    /\ NoneDone
    /\ pc[p] = "ssh"
    /\ op[p] = "Exec"
    /\ \E c \in SshExecChildren(fileExists, master) :
        /\ child' = [child EXCEPT ![p] = c]
        /\ result' = [result EXCEPT ![p] = Guarded(c, ExecOutcome(runCommand(c)))]
    /\ fileExists' = (fileExists /\ Reachable(fileExists, master))
    /\ sshCalls' = [sshCalls EXCEPT ![p] = @ + 1]
    /\ pc' = [pc EXCEPT ![p] = "done"]
    /\ snap' = [snap EXCEPT ![p] = Reachable(fileExists, master)]
    /\ UNCHANGED <<master, everCreated, tornDown, tdRan, op, saw, rmCalls,
                   exitOutcome, removeOutcome, tdAtStat, unlinkErrno>>
    /\ UNCHANGED <<classVars, pathVars, runVars, cliVars, tdLog, menuVars>>

\* SSHExecOp.run from runCommandBuffers on
ExecSsh(p) ==
    /\ NoneDone
    /\ pc[p] = "ssh"
    /\ op[p] = "Exec"
    /\ \E c \in SshExecChildren(fileExists, master) :
        /\ child' = [child EXCEPT ![p] = c]
        /\ result' = [result EXCEPT ![p] = Guarded(c, ExecOutcome(runCommand(c)))]
    /\ sshCalls' = [sshCalls EXCEPT ![p] = @ + 1]
    /\ pc' = [pc EXCEPT ![p] = "done"]
    /\ snap' = [snap EXCEPT ![p] = Reachable(fileExists, master)]
    /\ UNCHANGED <<fileExists, master, everCreated, tornDown, tdRan, op, saw, rmCalls,
                   exitOutcome, removeOutcome, tdAtStat, unlinkErrno>>
    /\ UNCHANGED <<classVars, pathVars, runVars, cliVars, tdLog, menuVars>>

\* SSHExitSocketOp.run from runCommand on; TearDownSocketOp.run goes on to step 2
ExitSsh(p) ==
    /\ NoneDone
    /\ pc[p] = "ssh"
    /\ op[p] \in {"Exit", "TearDown"}
    /\ \E c \in SshExitChildren(fileExists, master) :
        /\ child' = [child EXCEPT ![p] = c]
        /\ master' = IF c.kind = "close" /\ c.code = 0 THEN "exiting" ELSE master
        /\ IF op[p] = "Exit"
           THEN /\ result' = [result EXCEPT ![p] = Guarded(c, ExitOutcome(runCommand(c)))]
                /\ pc' = [pc EXCEPT ![p] = "done"]
                /\ UNCHANGED <<exitOutcome, tornDown, tdRan>>
           ELSE /\ exitOutcome' = [exitOutcome EXCEPT ![p] = Guarded(c, ExitOutcome(runCommand(c)))]
                /\ IF TearDownShortCircuits(exitOutcome'[p])
                   THEN /\ result' = [result EXCEPT ![p] =
                                         TearDownOutcome(exitOutcome'[p], NoOutcome)]
                        /\ pc' = [pc EXCEPT ![p] = "done"]
                        /\ tornDown' = TRUE
                        /\ tdRan' = TRUE
                   ELSE /\ pc' = [pc EXCEPT ![p] = "unlink"]
                        /\ UNCHANGED <<result, tornDown, tdRan>>
    /\ sshCalls' = [sshCalls EXCEPT ![p] = @ + 1]
    /\ snap' = [snap EXCEPT ![p] = Reachable(fileExists, master)]
    /\ UNCHANGED <<fileExists, everCreated, op, saw, rmCalls, removeOutcome, tdAtStat, unlinkErrno>>
    /\ UNCHANGED <<classVars, pathVars, runVars, cliVars, tdLog, menuVars>>

\* faulty variant: the removal also takes the master process down
UnlinkStopsMaster(p) ==
    /\ NoneDone
    /\ pc[p] = "unlink"
    /\ \E e \in UnlinkErrnos(fileExists) :
        /\ unlinkErrno' = [unlinkErrno EXCEPT ![p] = e]
        /\ fileExists' = IF e = "OK" THEN FALSE ELSE fileExists
        /\ removeOutcome' = [removeOutcome EXCEPT ![p] = RemoveOutcome(e)]
    /\ master' = IF master = "alive" THEN "dead" ELSE master
    /\ rmCalls' = [rmCalls EXCEPT ![p] = @ + 1]
    /\ result' = [result EXCEPT ![p] =
                     IF op[p] = "TearDown"
                     THEN TearDownOutcome(exitOutcome[p], removeOutcome'[p])
                     ELSE removeOutcome'[p]]
    /\ tornDown' = (tornDown \/ (op[p] = "TearDown" /\ result'[p].ok))
    /\ tdRan' = (tdRan \/ op[p] = "TearDown")
    /\ pc' = [pc EXCEPT ![p] = "done"]
    /\ UNCHANGED <<everCreated, op, saw, child, sshCalls, exitOutcome, tdAtStat, snap>>
    /\ UNCHANGED <<classVars, pathVars, runVars, cliVars, tdLog, menuVars>>

\* RemoveSocketFileOp.run; TearDownSocketOp.run returns on its outcome
Unlink(p) ==
    /\ NoneDone
    /\ pc[p] = "unlink"
    /\ \E e \in UnlinkErrnos(fileExists) :
        /\ unlinkErrno' = [unlinkErrno EXCEPT ![p] = e]
        /\ fileExists' = IF e = "OK" THEN FALSE ELSE fileExists
        /\ removeOutcome' = [removeOutcome EXCEPT ![p] = RemoveOutcome(e)]
    /\ rmCalls' = [rmCalls EXCEPT ![p] = @ + 1]
    /\ result' = [result EXCEPT ![p] =
                     IF op[p] = "TearDown"
                     THEN TearDownOutcome(exitOutcome[p], removeOutcome'[p])
                     ELSE removeOutcome'[p]]
    /\ tornDown' = (tornDown \/ (op[p] = "TearDown" /\ result'[p].ok))
    /\ tdRan' = (tdRan \/ op[p] = "TearDown")
    /\ pc' = [pc EXCEPT ![p] = "done"]
    /\ UNCHANGED <<master, everCreated, op, saw, child, sshCalls, exitOutcome, tdAtStat, snap>>
    /\ UNCHANGED <<classVars, pathVars, runVars, cliVars, tdLog, menuVars>>

\* SSHCreateSocketOp.run
CreateSsh(p) ==
    /\ NoneDone
    /\ pc[p] = "ssh"
    /\ op[p] = "Create"
    /\ \E c \in SshCreateChildren(fileExists, master) :
        /\ child' = [child EXCEPT ![p] = c]
        /\ result' = [result EXCEPT ![p] = Guarded(c, CreateOutcome(runCommand(c)))]
        /\ IF c.kind = "close" /\ c.code = 0
           THEN /\ fileExists' = TRUE
                /\ master' = "alive"
                /\ everCreated' = TRUE
                /\ tornDown' = FALSE
                /\ tdRan' = FALSE
           ELSE UNCHANGED <<fileExists, master, everCreated, tornDown, tdRan>>
    /\ sshCalls' = [sshCalls EXCEPT ![p] = @ + 1]
    /\ pc' = [pc EXCEPT ![p] = "done"]
    /\ snap' = [snap EXCEPT ![p] = Reachable(fileExists, master)]
    /\ UNCHANGED <<op, saw, rmCalls, exitOutcome, removeOutcome, tdAtStat, unlinkErrno>>
    /\ UNCHANGED <<classVars, pathVars, runVars, cliVars, tdLog, menuVars>>

----------------------------------------------------------------------------
(* The master process and other parties *)

\* the master is killed or loses its connection; the socket file stays behind
MasterCrash ==
    /\ NoneDone
    /\ master = "alive"
    /\ master' = "dead"
    /\ UNCHANGED <<fileExists, everCreated, tornDown, tdRan, op, pc, saw, child, sshCalls,
                   rmCalls, exitOutcome, removeOutcome, result, tdAtStat, snap, unlinkErrno>>
    /\ UNCHANGED <<classVars, pathVars, runVars, cliVars, tdLog, menuVars>>

\* an exiting master unlinks its own socket file and is gone
MasterCleanup ==
    /\ NoneDone
    /\ master = "exiting"
    /\ master' = "gone"
    /\ fileExists' = FALSE
    /\ UNCHANGED <<everCreated, tornDown, tdRan, op, pc, saw, child, sshCalls,
                   rmCalls, exitOutcome, removeOutcome, result, tdAtStat, snap, unlinkErrno>>
    /\ UNCHANGED <<classVars, pathVars, runVars, cliVars, tdLog, menuVars>>

\* another party removes the socket file
ExternalRemove ==
    /\ NoneDone
    /\ fileExists
    /\ fileExists' = FALSE
    /\ UNCHANGED <<master, everCreated, tornDown, tdRan, op, pc, saw, child, sshCalls,
                   rmCalls, exitOutcome, removeOutcome, result, tdAtStat, snap, unlinkErrno>>
    /\ UNCHANGED <<classVars, pathVars, runVars, cliVars, tdLog, menuVars>>

Next ==
    \/ \E p \in Callers : Begin(p)
    \/ \E p \in Callers : Stat(p)
    \/ \E p \in Callers : CheckSsh(p)
    \/ \E p \in Callers : ExecSsh(p)
    \/ \E p \in Callers : ExitSsh(p)
    \/ \E p \in Callers : Unlink(p)
    \/ \E p \in Callers : CreateSsh(p)
    \/ \E p \in Callers : Return(p)
    \/ MasterCrash
    \/ MasterCleanup
    \/ ExternalRemove

Spec == Init /\ [][Next]_vars

----------------------------------------------------------------------------
(* Create's classification on its own: every exit code of ExitCodes and every *)
(* stderr of at most MaxStderrLen phrases, through either source of the       *)
(* operation                                                                  *)

ExitCodes == {0, 1, 255}
CreateImpls == {"SSHCreateSocketOp.ts", "standalone"}

InitCreate ==
    /\ NoCallers
    /\ NoResolution
    /\ NoSideRuns
    /\ cImpl \in CreateImpls
    /\ cExit \in ExitCodes
    /\ cStderr \in SeqsUpTo(CreateTokens, MaxStderrLen)
    /\ cPc = "ready"
    /\ cResult = NoOutcome

\* SSHCreateSocketOp.run once runCommand has resolved with {exitCode, stderr}
CreateReturns ==
    /\ cPc = "ready"
    /\ cResult' = IF cImpl = "standalone"
                  THEN CreateOutcomeStandalone([exitCode |-> cExit, stderr |-> cStderr])
                  ELSE CreateOutcome([exitCode |-> cExit, stderr |-> cStderr])
    /\ cPc' = "done"
    /\ UNCHANGED <<cImpl, cExit, cStderr>>
    /\ UNCHANGED <<lifeVars, pathVars, runVars, cliVars, tdLog, menuVars>>

NextCreate == CreateReturns

SpecCreate == InitCreate /\ [][NextCreate]_vars

----------------------------------------------------------------------------
(* Exec's classification on its own: every exit code of ExitCodes and every *)
(* stderr of at most MaxStderrLen phrases                                   *)

ExecImpl == "SSHExecOp.ts"

ExecTokens ==
    {NoSuchFileUpper, NoSuchFileLower, ConnectionRefused, ConnectionReset,
     OperationTimedOut, ConnectionTimedOut, ControlSocket, Dead, OtherText}

InitExec ==
    /\ NoCallers
    /\ NoResolution
    /\ NoSideRuns
    /\ cImpl = ExecImpl
    /\ cExit \in ExitCodes
    /\ cStderr \in SeqsUpTo(ExecTokens, MaxStderrLen)
    /\ cPc = "ready"
    /\ cResult = NoOutcome

\* SSHExecOp.run once runCommandBuffers has resolved with {exitCode, stderr}
ExecReturns ==
    /\ cPc = "ready"
    /\ cImpl = ExecImpl
    /\ cResult' = ExecOutcome([exitCode |-> cExit, stderr |-> cStderr])
    /\ cPc' = "done"
    /\ UNCHANGED <<cImpl, cExit, cStderr>>
    /\ UNCHANGED <<lifeVars, pathVars, runVars, cliVars, tdLog, menuVars>>

NextExec == ExecReturns

SpecExec == InitExec /\ [][NextExec]_vars

----------------------------------------------------------------------------
(* #getSocketPath on its own: a string is the sequence of its characters; every *)
(* host of at most MaxHostLen characters of HostChars and the host of the      *)
(* documented example, resolved ResolveCalls times                             *)

Lower ==
    {"a", "b", "c", "d", "e", "f", "g", "h", "i", "j", "k", "l", "m",
     "n", "o", "p", "q", "r", "s", "t", "u", "v", "w", "x", "y", "z"}
Upper ==
    {"A", "B", "C", "D", "E", "F", "G", "H", "I", "J", "K", "L", "M",
     "N", "O", "P", "Q", "R", "S", "T", "U", "V", "W", "X", "Y", "Z"}
Digits == {"0", "1", "2", "3", "4", "5", "6", "7", "8", "9"}

\* the characters the last replace() keeps: [a-zA-Z0-9-]
Kept == Lower \cup Upper \cup Digits \cup {"-"}

\* String.replace(/ch/g, by)
ReplaceAll(s, ch, by) == [i \in 1..Len(s) |-> IF s[i] = ch THEN by ELSE s[i]]

IsKept(c) == c \in Kept

\* String.replace(/[^a-zA-Z0-9-]/g, '')
RemoveOthers(s) == SelectSeq(s, IsKept)

\* faulty variant: ':' is not replaced and so is removed with the other characters
sanitizedWithoutColon(host) ==
    RemoveOthers(ReplaceAll(ReplaceAll(host, "@", "-"), ".", "-"))

sanitized(host) ==
    RemoveOthers(ReplaceAll(ReplaceAll(ReplaceAll(host, "@", "-"), ".", "-"), ":", "-"))

Prefix == <<"/", "t", "m", "p", "/", "s", "s", "h", "i", "t", "-", "c", "t", "r", "l", "-">>

Given(text) == [given |-> TRUE, text |-> text]

\* faulty variant: an explicit path put through the sanitisation of hosts
getSocketPathSanitizesGiven(host, socketPath) ==
    IF socketPath.given /\ socketPath.text # <<>>
    THEN sanitized(socketPath.text)
    ELSE Prefix \o sanitized(host)

\* if (this.socketPath) return this.socketPath: undefined and '' are falsy
getSocketPath(host, socketPath) ==
    IF socketPath.given /\ socketPath.text # <<>>
    THEN socketPath.text
    ELSE Prefix \o sanitized(host)

MaxHostLen == 3
ResolveCalls == 2

HostChars == {"u", "Z", "3", "-", "@", ".", ":", "_", "/"}
ExampleHost == <<"u", "s", "e", "r", "@", "1", "0", ".", "0", ".", "0", ".", "3">>
Hosts == SeqsUpTo(HostChars, MaxHostLen) \cup {ExampleHost}
SocketPaths == {NoPath, Given(<<>>), Given(<<"/", "r", "u", "n", "/", "a", ".", "s">>)}

InitPath ==
    /\ NoCallers
    /\ NoClassification
    /\ NoSideRuns
    /\ pHost \in Hosts
    /\ pSocketPath \in SocketPaths
    /\ pPc = "on"
    /\ pPaths = <<>>

\* one more call of #getSocketPath on the same operation object
ResolvePath ==
    /\ pPc = "on"
    /\ Len(pPaths) < ResolveCalls
    /\ pPaths' = Append(pPaths, getSocketPath(pHost, pSocketPath))
    /\ UNCHANGED <<pHost, pSocketPath, pPc>>
    /\ UNCHANGED <<lifeVars, classVars, runVars, cliVars, tdLog, menuVars>>

NextPath == ResolvePath

SpecPath == InitPath /\ [][NextPath]_vars

----------------------------------------------------------------------------
(* runCommand / runCommandBuffers on their own, event by event: spawn, the   *)
(* 'data' events of the two pipes, the 'close' and 'error' events of the     *)
(* child, and the operation that awaits the promise.  A Buffer is the        *)
(* sequence of its texts; at most MaxChunks chunks arrive.                   *)

MaxChunks == 2

SpawnMessage == "spawn ssh ENOENT"

\* the bytes of one multi-byte UTF-8 character, which a pipe may deliver in two
\* chunks, the character they encode and U+FFFD
FirstHalf == "first bytes"
SecondHalf == "last bytes"
Character == "character"
Replacement == "U+FFFD"

\* a chunk is a run of bytes: a well-formed text or one half of a character
ChunkTexts == {"data", SpawnMessage, FirstHalf, SecondHalf}
Chunks == {<<t>> : t \in ChunkTexts}

\* exit codes a child that ran is closed with; NullCode when a signal killed it
CloseCodes == {0, 1, 255, NullCode}

\* the code of the 'close' event that follows a failed spawn (-errno)
FailedSpawnCode == -2

\* ConnectTimeout values of the operation that runs the command
Timeouts == {1, 30}

\* Buffer.concat(chunks)
RECURSIVE Concat(_)
Concat(chunks) == IF chunks = <<>> THEN <<>> ELSE Head(chunks) \o Concat(Tail(chunks))

\* Buffer.toString(): UTF-8 decoding; bytes that do not make up a character
\* become U+FFFD
RECURSIVE toString(_)
toString(buffer) ==
    IF buffer = <<>> THEN <<>>
    ELSE IF Head(buffer) = FirstHalf /\ Len(buffer) >= 2 /\ buffer[2] = SecondHalf
    THEN <<Character>> \o toString(Tail(Tail(buffer)))
    ELSE IF Head(buffer) \in {FirstHalf, SecondHalf}
    THEN <<Replacement>> \o toString(Tail(buffer))
    ELSE <<Head(buffer)>> \o toString(Tail(buffer))

\* every chunk decoded by itself, the texts joined
RECURSIVE DecodeEach(_)
DecodeEach(chunks) ==
    IF chunks = <<>> THEN <<>> ELSE toString(Head(chunks)) \o DecodeEach(Tail(chunks))

ChildEvent(kind, code, message) == [kind |-> kind, code |-> code, message |-> message]

\* faulty variant: a signal-killed child reported as a clean exit
CloseResultNullIsZero(code, stdoutChunks, stderrChunks) ==
    [exitCode |-> IF code = NullCode THEN 0 ELSE code,
     stdout |-> toString(Concat(stdoutChunks)),
     stderr |-> toString(Concat(stderrChunks))]

\* faulty variant: the chunks decoded one by one before they are joined
CloseResultChunkwise(code, stdoutChunks, stderrChunks) ==
    [exitCode |-> IF code = NullCode THEN 1 ELSE code,
     stdout |-> DecodeEach(stdoutChunks),
     stderr |-> DecodeEach(stderrChunks)]

\* the value of resolve() in the 'close' listener
CloseResult(code, stdoutChunks, stderrChunks) ==
    [exitCode |-> IF code = NullCode THEN 1 ELSE code,
     stdout |-> toString(Concat(stdoutChunks)),
     stderr |-> toString(Concat(stderrChunks))]

\* the value of resolve() in the 'error' listener
ErrorResult(message) == [exitCode |-> 1, stdout |-> <<>>, stderr |-> <<message>>]

\* faulty variant: every call of resolve() replaces the result
ResolveLastWins(value) ==
    /\ rResolves' = rResolves + 1
    /\ rPromise' = "resolved"
    /\ rResult' = value

\* resolve(value): only the first call settles the promise
Resolve(value) ==
    /\ rResolves' = rResolves + 1
    /\ IF rPromise = "pending"
       THEN rPromise' = "resolved" /\ rResult' = value
       ELSE UNCHANGED <<rPromise, rResult>>

InitRun ==
    /\ NoCallers
    /\ NoClassification
    /\ NoResolution
    /\ NoCli
    /\ NoLog
    /\ NoMenus
    /\ rPc = "called"
    /\ rChild = "none"
    /\ rTimeout \in Timeouts
    /\ rEmitted = <<>>
    /\ rStdoutChunks = <<>>
    /\ rStderrChunks = <<>>
    /\ rEvents = <<>>
    /\ rPromise = "none"
    /\ rResult = NoShellResult
    /\ rResolves = 0

\* the promise executor: spawn() returns a child and the listeners are
\* attached, or spawn() throws and the promise is rejected.  The child runs
\* and may exit, runs and never exits, or could not be started.
Spawn ==
    /\ rPc = "called"
    /\ \E fate \in {"running", "hung", "failed", "threw"} :
        /\ rChild' = fate
        /\ rPromise' = IF fate = "threw" THEN "rejected" ELSE "pending"
    /\ rPc' = "awaiting"
    /\ UNCHANGED <<rTimeout, rEmitted, rStdoutChunks, rStderrChunks, rEvents, rResult,
                   rResolves>>
    /\ UNCHANGED <<lifeVars, classVars, pathVars, cliVars, tdLog, menuVars>>

CloseFired == \E i \in 1..Len(rEvents) : rEvents[i].kind = "close"
ErrorFired == \E i \in 1..Len(rEvents) : rEvents[i].kind = "error"

\* proc.stdout.on('data', chunk => stdoutChunks.push(chunk))
OnStdoutData(chunk) ==
    /\ rChild \in {"running", "hung", "detached", "exited"}
    /\ ~CloseFired
    /\ Len(rEmitted) < MaxChunks
    /\ rStdoutChunks' = Append(rStdoutChunks, chunk)
    /\ rEmitted' = Append(rEmitted, [stream |-> "stdout", chunk |-> chunk])
    /\ UNCHANGED <<rPc, rChild, rTimeout, rStderrChunks, rEvents, rPromise, rResult,
                   rResolves>>
    /\ UNCHANGED <<lifeVars, classVars, pathVars, cliVars, tdLog, menuVars>>

\* proc.stderr.on('data', chunk => stderrChunks.push(chunk))
OnStderrData(chunk) ==
    /\ rChild \in {"running", "hung", "detached", "exited"}
    /\ ~CloseFired
    /\ Len(rEmitted) < MaxChunks
    /\ rStderrChunks' = Append(rStderrChunks, chunk)
    /\ rEmitted' = Append(rEmitted, [stream |-> "stderr", chunk |-> chunk])
    /\ UNCHANGED <<rPc, rChild, rTimeout, rStdoutChunks, rEvents, rPromise, rResult,
                   rResolves>>
    /\ UNCHANGED <<lifeVars, classVars, pathVars, cliVars, tdLog, menuVars>>

\* the child process terminates.  Its stdout and stderr pipes are closed with
\* it ("exited"), or a descendant that inherited them keeps them open
\* ("detached"), as the master that `ssh -f` leaves in the background may do.
\* No listener is attached to the child's 'exit' event.
ChildExits ==
    /\ rChild = "running"
    /\ rChild' \in {"exited", "detached"}
    /\ UNCHANGED <<rPc, rTimeout, rEmitted, rStdoutChunks, rStderrChunks, rEvents, rPromise,
                   rResult, rResolves>>
    /\ UNCHANGED <<lifeVars, classVars, pathVars, cliVars, tdLog, menuVars>>

\* the descendant that held the pipes closes them or ends
PipesReleased ==
    /\ rChild = "detached"
    /\ rChild' = "exited"
    /\ UNCHANGED <<rPc, rTimeout, rEmitted, rStdoutChunks, rStderrChunks, rEvents, rPromise,
                   rResult, rResolves>>
    /\ UNCHANGED <<lifeVars, classVars, pathVars, cliVars, tdLog, menuVars>>

\* proc.on('close', code => resolve(...)): 'close' is emitted once the child
\* has ended and its stdio pipes are closed; after a failed spawn 'close'
\* follows 'error'
OnClose ==
    /\ ~CloseFired
    /\ \E code \in (IF rChild = "exited" THEN CloseCodes
                    ELSE IF rChild = "failed" /\ ErrorFired THEN {FailedSpawnCode}
                    ELSE {}) :
        /\ Resolve(CloseResult(code, rStdoutChunks, rStderrChunks))
        /\ rEvents' = Append(rEvents, ChildEvent("close", code, ""))
    /\ UNCHANGED <<rPc, rChild, rTimeout, rEmitted, rStdoutChunks, rStderrChunks>>
    /\ UNCHANGED <<lifeVars, classVars, pathVars, cliVars, tdLog, menuVars>>

\* proc.on('error', err => resolve(...)): the child could not be started
OnError ==
    /\ rChild = "failed"
    /\ ~ErrorFired
    /\ Resolve(ErrorResult(SpawnMessage))
    /\ rEvents' = Append(rEvents, ChildEvent("error", 0, SpawnMessage))
    /\ UNCHANGED <<rPc, rChild, rTimeout, rEmitted, rStdoutChunks, rStderrChunks>>
    /\ UNCHANGED <<lifeVars, classVars, pathVars, cliVars, tdLog, menuVars>>

\* faulty variant: the operation gives up on its child when the time is out
OpReturnsOnTimeout ==
    /\ rPc = "awaiting"
    /\ rPc' = "returned"
    /\ UNCHANGED <<rChild, rTimeout, rEmitted, rStdoutChunks, rStderrChunks, rEvents,
                   rPromise, rResult, rResolves>>
    /\ UNCHANGED <<lifeVars, classVars, pathVars, cliVars, tdLog, menuVars>>

\* `await runCommand(...)` in the operation: it goes on when the promise is
\* settled, and there is nothing else that lets it go on
OpReturns ==
    /\ rPc = "awaiting"
    /\ rPromise \in {"resolved", "rejected"}
    /\ rPc' = "returned"
    /\ UNCHANGED <<rChild, rTimeout, rEmitted, rStdoutChunks, rStderrChunks, rEvents,
                   rPromise, rResult, rResolves>>
    /\ UNCHANGED <<lifeVars, classVars, pathVars, cliVars, tdLog, menuVars>>

NextRun ==
    \/ Spawn
    \/ \E chunk \in Chunks : OnStdoutData(chunk)
    \/ \E chunk \in Chunks : OnStderrData(chunk)
    \/ ChildExits
    \/ PipesReleased
    \/ OnClose
    \/ OnError
    \/ OpReturns

SpecRun == InitRun /\ [][NextRun]_vars

\* the event loop delivers the events of a child that has ended with its pipes
\* closed or that could not be started, and resumes the awaiting operation;
\* nothing obliges a child to end or a descendant to let go of the pipes
SpecRunFair ==
    /\ SpecRun
    /\ WF_vars(Spawn)
    /\ WF_vars(OnClose)
    /\ WF_vars(OnError)
    /\ WF_vars(OpReturns)

----------------------------------------------------------------------------
(* Teardowns of one socket path side by side: every caller runs TearDownSocketOp *)
(* once on a path that a Create may have set up before; nothing creates the     *)
(* socket again                                                                  *)

Logged(p) == tdLog[p] # NoEntry

\* the path before the teardowns: never created, or created with the master
\* alive or dead since
InitTD ==
    /\ master \in {"alive", "dead", "gone"}
    /\ fileExists = (master # "gone")
    /\ everCreated = (master # "gone")
    /\ tornDown = FALSE
    /\ tdRan = FALSE
    /\ op = [p \in Callers |-> "none"]
    /\ pc = [p \in Callers |-> "idle"]
    /\ saw = [p \in Callers |-> "unknown"]
    /\ child = [p \in Callers |-> NoChild]
    /\ sshCalls = [p \in Callers |-> 0]
    /\ rmCalls = [p \in Callers |-> 0]
    /\ exitOutcome = [p \in Callers |-> NoOutcome]
    /\ removeOutcome = [p \in Callers |-> NoOutcome]
    /\ result = [p \in Callers |-> NoOutcome]
    /\ tdAtStat = [p \in Callers |-> NoTearDown]
    /\ snap = [p \in Callers |-> NoSnap]
    /\ unlinkErrno = [p \in Callers |-> "none"]
    /\ NoClassification /\ NoResolution /\ NoSideRuns

\* new TearDownSocketOp(socketPath, host).run(), once for each caller
BeginTearDown(p) ==
    /\ ~Logged(p)
    /\ Begin(p)
    /\ op'[p] = "TearDown"

\* the caller has taken the outcome of its teardown
ReturnLogged(p) ==
    /\ pc[p] = "done"
    /\ tdLog' = [tdLog EXCEPT ![p] = [outcome |-> result[p], unlinkErrno |-> unlinkErrno[p]]]
    /\ op' = [op EXCEPT ![p] = "none"]
    /\ pc' = [pc EXCEPT ![p] = "idle"]
    /\ saw' = [saw EXCEPT ![p] = "unknown"]
    /\ child' = [child EXCEPT ![p] = NoChild]
    /\ sshCalls' = [sshCalls EXCEPT ![p] = 0]
    /\ rmCalls' = [rmCalls EXCEPT ![p] = 0]
    /\ exitOutcome' = [exitOutcome EXCEPT ![p] = NoOutcome]
    /\ removeOutcome' = [removeOutcome EXCEPT ![p] = NoOutcome]
    /\ result' = [result EXCEPT ![p] = NoOutcome]
    /\ tdAtStat' = [tdAtStat EXCEPT ![p] = NoTearDown]
    /\ snap' = [snap EXCEPT ![p] = NoSnap]
    /\ unlinkErrno' = [unlinkErrno EXCEPT ![p] = "none"]
    /\ UNCHANGED <<fileExists, master, everCreated, tornDown, tdRan>>
    /\ UNCHANGED <<classVars, pathVars, runVars, cliVars, menuVars>>

NextTD ==
    \/ \E p \in Callers : BeginTearDown(p)
    \/ \E p \in Callers : Stat(p)
    \/ \E p \in Callers : ExitSsh(p)
    \/ \E p \in Callers : Unlink(p)
    \/ \E p \in Callers : ReturnLogged(p)
    \/ MasterCrash
    \/ MasterCleanup
    \/ ExternalRemove

SpecTD == InitTD /\ [][NextTD]_vars

----------------------------------------------------------------------------

(* The operations that look at a socket or use it (Check, Validate, Exec) and *)
(* Exit, on a path that a Create may have set up before, beside the master   *)
(* and other parties                                                         *)

ProbeOps == {"Check", "Validate", "Exec", "Exit"}

\* new XxxOp(socketPath, host).run() of one of these operations
BeginProbe(p) ==
    /\ Begin(p)
    /\ op'[p] \in ProbeOps

NextProbe ==
    \/ \E p \in Callers : BeginProbe(p)
    \/ \E p \in Callers : Stat(p)
    \/ \E p \in Callers : CheckSsh(p)
    \/ \E p \in Callers : ExecSsh(p)
    \/ \E p \in Callers : ExitSsh(p)
    \/ \E p \in Callers : Return(p)
    \/ MasterCrash
    \/ MasterCleanup
    \/ ExternalRemove

SpecProbe == InitTD /\ [][NextProbe]_vars

----------------------------------------------------------------------------

(* The interactive programs, each at its own terminal: main() running        *)
(* SSHitRootOp, and the tunnel manager's RootOp with its AppState.  The op   *)
(* runner of @axhxrx/ops runs the operation that handleOutcome's handler     *)
(* returns in place of the one that returned it.                             *)

MaxMenus == 3
MaxTunnels == 3
MaxArgs == 1

\* command-line arguments, a string being the sequence of its parts
Args == {<<"--version">>, <<"--version", "=", "1">>, <<"--verbose">>}
ArgLists == SeqsUpTo(Args, MaxArgs)

\* const [key, _value] = arg.split("=")
RECURSIVE Key(_)
Key(arg) ==
    IF arg = <<>> \/ Head(arg) = "=" THEN <<>> ELSE <<Head(arg)>> \o Key(Tail(arg))

\* parseArgs(args): version is set when some argument's key is --version
parseArgs(args) ==
    [version |-> \E i \in 1..Len(args) : Key(args[i]) = <<"--version">>]

\* new SelectFromListOp(["Do not quit", "Quit"])
Selections == <<"Do not quit", "Quit">>

\* how a menu can fail: Ctrl-C, or an error of the terminal
MenuFailures == {"canceled", "UnknownError"}

\* what the user can answer at a menu of the given items
MenuOutcomes(items) ==
    {Succeed(items[i]) : i \in 1..Len(items)} \cup {Fail(f, <<>>) : f \in MenuFailures}

ExitOp(exitCode) == [op |-> "ExitOp", exitCode |-> exitCode]
This == [op |-> "SSHitRootOp", exitCode |-> 0]

\* faulty variant: a failed menu hands over to an ExitOp of 0
HandlerExitsZeroOnFailure(outcome) ==
    IF outcome.ok
    THEN IF outcome.value = "Quit" THEN ExitOp(1) ELSE This
    ELSE ExitOp(0)

\* the handler that SSHitRootOp.run gives to handleOutcome
Handler(outcome) ==
    IF outcome.ok
    THEN IF outcome.value = "Quit" THEN ExitOp(1) ELSE This
    ELSE ExitOp(1)

\* main(): init(argv), App.init(args), opsMain(new SSHitRootOp())
MainStarts ==
    /\ root.pc = "called"
    /\ root' = [root EXCEPT !.pc = "run", !.options = parseArgs(root.argv)]
    /\ UNCHANGED <<rootOp, state>>
    /\ UNCHANGED <<lifeVars, classVars, pathVars, runVars, cliVars, tdLog>>

\* SSHitRootOp.run: a new menu of the two items is handed to handleOutcome and
\* shown
RootRun ==
    /\ root.pc = "run"
    /\ root' = [root EXCEPT !.pc = "menu", !.menu = Selections, !.shown = @ + 1]
    /\ UNCHANGED <<rootOp, state>>
    /\ UNCHANGED <<lifeVars, classVars, pathVars, runVars, cliVars, tdLog>>

\* the menu returns and the handler names the next operation; at most MaxMenus
\* menus are answered with "Do not quit"
MenuAnswers ==
    /\ root.pc = "menu"
    /\ \E o \in MenuOutcomes(root.menu) :
        /\ Handler(o) = This => root.shown < MaxMenus
        /\ root' = [root EXCEPT !.outcome = o,
                                !.next = Handler(o),
                                !.pc = IF Handler(o) = This THEN "run" ELSE "exit"]
    /\ UNCHANGED <<rootOp, state>>
    /\ UNCHANGED <<lifeVars, classVars, pathVars, runVars, cliVars, tdLog>>

\* ExitOp.run: this.succeed(this.exitCode); nothing is left to run and opsMain
\* returns
ExitOpRuns ==
    /\ root.pc = "exit"
    /\ root' = [root EXCEPT !.result = Succeed(root.next.exitCode), !.pc = "returned"]
    /\ UNCHANGED <<rootOp, state>>
    /\ UNCHANGED <<lifeVars, classVars, pathVars, runVars, cliVars, tdLog>>

\* if (!outcome.ok) process.exit(1); otherwise main() falls off its end
MainEnds ==
    /\ root.pc = "returned"
    /\ root' = [root EXCEPT !.exitCode = IF root.result.ok THEN 0 ELSE 1, !.pc = "exited"]
    /\ UNCHANGED <<rootOp, state>>
    /\ UNCHANGED <<lifeVars, classVars, pathVars, runVars, cliVars, tdLog>>

\* the tunnel that RootOp.ts pushes when the module is loaded, and the one
\* AddSSHPortOp makes
InitialTunnel ==
    [localPort |-> 1234, remotePort |-> 5678, remoteHost |-> "example.com",
     sshHost |-> "ssh.example.com", sshUser |-> "user", openedAt |-> "now",
     status |-> "active"]

AddedTunnel ==
    [localPort |-> 3389, remotePort |-> 3389, remoteHost |-> "localhost",
     sshHost |-> "ubuntu@orb", sshUser |-> "ubuntu", openedAt |-> "undefined",
     status |-> "starting"]

\* the items of RootOp.buildMenu
TunnelMenu == <<"Add SSH tunnel", "Quit">>

\* how PrintOp can end
PrintResults == {Succeed("printed"), Fail("UnknownError", <<>>)}

\* AddSSHPortOp.run on the result of its PrintOp
AddSSHPortOutcome(printResult) ==
    IF ~printResult.ok THEN Fail("UnknownError", <<>>) ELSE Succeed(AddedTunnel)

\* faulty variant: a tunnel is pushed whatever the add returned
PushAlways(tunnels, added) == Append(tunnels, AddedTunnel)

\* if (result.ok) state.tunnels.push(result.value)
Push(tunnels, added) == IF added.ok THEN Append(tunnels, added.value) ELSE tunnels

\* RootOp.run up to `await mainMenuOp.run()`: the menu is built and shown
TunnelMenuShown ==
    /\ rootOp.pc = "run"
    /\ rootOp' = [rootOp EXCEPT !.pc = "menu"]
    /\ UNCHANGED <<root, state>>
    /\ UNCHANGED <<lifeVars, classVars, pathVars, runVars, cliVars, tdLog>>

\* the menu returns: a failure ends RootOp with failWithUnknownError(), Quit
\* with cancel(), and "Add SSH tunnel" hands AddSSHPortOp to handleOutcome
TunnelMenuAnswers ==
    /\ rootOp.pc = "menu"
    /\ \E r \in MenuOutcomes(TunnelMenu) :
        rootOp' = [rootOp EXCEPT
                      !.menuResult = r,
                      !.pc = IF r.ok /\ r.value = "Add SSH tunnel" THEN "add" ELSE "ended",
                      !.outcome = IF ~r.ok THEN Fail("UnknownError", <<>>)
                                  ELSE IF r.value = "Quit" THEN Fail("canceled", <<>>)
                                  ELSE @]
    /\ UNCHANGED <<root, state>>
    /\ UNCHANGED <<lifeVars, classVars, pathVars, runVars, cliVars, tdLog>>

\* AddSSHPortOp.run and the handler of RootOp: push on success, then a new
\* RootOp; at most MaxTunnels tunnels are held
AddSSHPort ==
    /\ rootOp.pc = "add"
    /\ \E printed \in PrintResults :
        LET addResult == AddSSHPortOutcome(printed) IN
        /\ addResult.ok => Len(state.tunnels) < MaxTunnels
        /\ state' = [state EXCEPT !.tunnels = Push(@, addResult)]
        /\ rootOp' = [rootOp EXCEPT !.addResult = addResult,
                                    !.added = IF addResult.ok THEN @ + 1 ELSE @,
                                    !.pc = "run"]
    /\ UNCHANGED root
    /\ UNCHANGED <<lifeVars, classVars, pathVars, runVars, cliVars, tdLog>>

InitInteractive ==
    /\ NoCallers /\ NoClassification /\ NoResolution /\ NoRun /\ NoCli /\ NoLog
    /\ \E argv \in ArgLists : root = [NoRoot EXCEPT !.pc = "called", !.argv = argv]
    /\ rootOp = [NoTunnelManager EXCEPT !.pc = "run"]
    /\ state = [tunnels |-> <<InitialTunnel>>]

NextInteractive ==
    \/ MainStarts
    \/ RootRun
    \/ MenuAnswers
    \/ ExitOpRuns
    \/ MainEnds
    \/ TunnelMenuShown
    \/ TunnelMenuAnswers
    \/ AddSSHPort

SpecInteractive == InitInteractive /\ [][NextInteractive]_vars

\* the op runner runs the next operation at once, and a returned opsMain lets
\* main() go on; nothing obliges the user to answer a menu
SpecInteractiveFair ==
    /\ SpecInteractive
    /\ WF_vars(MainStarts)
    /\ WF_vars(RootRun)
    /\ WF_vars(ExitOpRuns)
    /\ WF_vars(MainEnds)

----------------------------------------------------------------------------

(* The declared result types of the operations *)

\* the failure enumeration of each operation
Failures(o) ==
    CASE o = "Create" -> {"AuthenticationFailed", "HostNotFound", "HostKeyVerificationFailed",
                          "ConnectionRefused", "PermissionDenied", "Timeout", "UnknownError"}
      [] o = "Check" -> {"SocketNotFound", "UnknownError"}
      [] o = "Exec" -> {"SocketNotFound", "SocketDead", "ConnectionFailed", "Timeout",
                        "UnknownError"}
      [] o = "Exit" -> {"SocketNotFound", "UnknownError"}
      [] o = "Remove" -> {"FileNotFound", "PermissionDenied", "UnknownError"}
      [] o = "TearDown" -> {"RemoveFailed", "UnknownError"}
      [] o = "Validate" -> {"UnknownError"}

\* v is of the success type of operation o
IsValueOf(o, v) ==
    CASE o = "Create" -> v = SocketInfo
      [] o = "Check" -> v \in {"alive", "dead"}
      [] o = "Exec" -> v.exitCode \in 0..255
      [] o = "Exit" -> v \in BOOLEAN
      [] o = "Remove" -> v = TRUE
      [] o = "TearDown" -> v \in [exitedCleanly : BOOLEAN, fileRemoved : BOOLEAN]
      [] o = "Validate" -> v \in [valid : BOOLEAN, status : {"alive", "dead", "not-found"}]

\* r is Success<value of o> | Failure<failure of o>
WellTyped(o, r) == IF r.ok THEN IsValueOf(o, r.value) ELSE r.failure \in Failures(o)

----------------------------------------------------------------------------
(* The command-line entry points (import.meta.main) of the operations *)

\* success values an operation can return
SuccessValues(o) ==
    CASE o = "Create" -> {SocketInfo}
      [] o = "Check" -> {"alive", "dead"}
      [] o = "Exec" -> {[exitCode |-> c, stderr |-> <<>>] : c \in RemoteCodes \ {255}}
      [] o = "Exit" -> BOOLEAN
      [] o = "Remove" -> {TRUE}
      [] o = "TearDown" -> [exitedCleanly : BOOLEAN, fileRemoved : BOOLEAN]
      [] o = "Validate" -> {[valid |-> (s = "alive"), status |-> s] :
                                s \in {"alive", "dead", "not-found"}}

\* what `await op.run()` can give the entry point of operation o
Outcomes(o) ==
    {Succeed(v) : v \in SuccessValues(o)}
        \cup {Fail(f, Debug("", 0, <<>>)) : f \in Failures(o)}

\* parseArgs: SSHCreateSocketOp declares no json option and parseArgs is
\* strict, so --json is refused there
ParseArgsThrows(o, json) == o = "Create" /\ json

\* faulty variant: the Exec entry point exits with the remote command's code
CliExitCodeOfCommand(o, outcome) ==
    IF outcome.ok
    THEN IF o = "Exec" THEN outcome.value.exitCode ELSE 0
    ELSE 1

\* the process ends by itself (0) after a success, by process.exit(1) after a failure
CliExitCode(o, outcome) == IF outcome.ok THEN 0 ELSE 1

InitCli ==
    /\ NoCallers
    /\ NoClassification
    /\ NoResolution
    /\ NoRun
    /\ NoLog
    /\ NoMenus
    /\ kOp \in Ops
    /\ kJson \in BOOLEAN
    /\ kArgs \in {"given", "missing"}
    /\ kOutcome = NoOutcome
    /\ kPc = "start"
    /\ kExit = 0

\* parseArgs and the usage check
CliParse ==
    /\ kPc = "start"
    /\ IF ParseArgsThrows(kOp, kJson) \/ kArgs = "missing"
       THEN kPc' = "exited" /\ kExit' = 1
       ELSE kPc' = "run" /\ kExit' = kExit
    /\ UNCHANGED <<kOp, kJson, kArgs, kOutcome>>
    /\ UNCHANGED <<lifeVars, classVars, pathVars, runVars, tdLog, menuVars>>

\* const outcome = await op.run(jsonOutput ? silentIO : undefined)
CliRun ==
    /\ kPc = "run"
    /\ kOutcome' \in Outcomes(kOp)
    /\ kPc' = "report"
    /\ UNCHANGED <<kOp, kJson, kArgs, kExit>>
    /\ UNCHANGED <<lifeVars, classVars, pathVars, runVars, tdLog, menuVars>>

\* the four branches on jsonOutput and outcome.ok
CliReport ==
    /\ kPc = "report"
    /\ kExit' = CliExitCode(kOp, kOutcome)
    /\ kPc' = "exited"
    /\ UNCHANGED <<kOp, kJson, kArgs, kOutcome>>
    /\ UNCHANGED <<lifeVars, classVars, pathVars, runVars, tdLog, menuVars>>

NextCli == CliParse \/ CliRun \/ CliReport

SpecCli == InitCli /\ [][NextCli]_vars

----------------------------------------------------------------------------
(* Claims *)

Done(p, o) == op[p] = o /\ pc[p] = "done"

\* the SSH child ran and exited by itself with a code
Exited(p) == child[p].kind = "close" /\ child[p].code # NullCode

FailsWith(p, f) == ~result[p].ok /\ result[p].failure = f

NothingTornDown == Succeed([exitedCleanly |-> FALSE, fileRemoved |-> FALSE])

\* C1: a TearDown of a path whose socket file does not exist (never created, or
\* absent at the existence check) returns success {exitedCleanly: false,
\* fileRemoved: false} and does not call RemoveSocketFileOp.
C1_TearDownOfNothing ==
    \A p \in Callers :
        (Done(p, "TearDown") /\ (~everCreated \/ saw[p] = "absent"))
            => (result[p] = NothingTornDown /\ rmCalls[p] = 0)

C1_Witness ==
    \E p \in Callers :
        Done(p, "TearDown") /\ ~everCreated /\ result[p] = NothingTornDown

\* C2 as stated: once a TearDown has returned (whatever it returned) and no Create
\* has made the socket since, a Check or an Exec fails with SocketNotFound.
C2_AfterAnyTearDown ==
    \A p \in Callers :
        ((Done(p, "Check") \/ Done(p, "Exec")) /\ tdAtStat[p].ran)
            => FailsWith(p, "SocketNotFound")

\* C2 amended: once a TearDown has returned success and no Create has made the
\* socket since, a Check or an Exec fails with SocketNotFound, without the SSH client.
C2_AfterSuccessfulTearDown ==
    \A p \in Callers :
        ((Done(p, "Check") \/ Done(p, "Exec")) /\ tdAtStat[p].ok)
            => (FailsWith(p, "SocketNotFound") /\ sshCalls[p] = 0)

C2_Witness ==
    \E p \in Callers :
        Done(p, "Exec") /\ tdAtStat[p].ok /\ everCreated /\ FailsWith(p, "SocketNotFound")

\* C3: TearDown returns a failure only when its RemoveSocketFileOp failed with
\* something other than FileNotFound, that is when unlink() answered a real
\* filesystem error; the failure is RemoveFailed.
C3_TearDownFailsOnlyOnRemoveError ==
    \A p \in Callers :
        (Done(p, "TearDown") /\ ~result[p].ok)
            => /\ rmCalls[p] = 1
               /\ ~removeOutcome[p].ok
               /\ removeOutcome[p].failure # "FileNotFound"
               /\ unlinkErrno[p] \notin {"OK", "ENOENT"}
               /\ result[p].failure = "RemoveFailed"

C3_Witness ==
    \E p \in Callers :
        Done(p, "TearDown") /\ unlinkErrno[p] = "EACCES" /\ FailsWith(p, "RemoveFailed")

\* C4: when the socket file exists and the SSH client exits with code 255, Exec
\* returns no successful ExecResult; for every other exit code it returns a
\* successful ExecResult carrying that code.
C4_ExecExitCode ==
    \A p \in Callers :
        (Done(p, "Exec") /\ saw[p] = "present" /\ Exited(p))
            => IF child[p].code = 255
               THEN ~result[p].ok
               ELSE result[p].ok /\ result[p].value.exitCode = child[p].code

C4_Witness ==
    \E p \in Callers :
        /\ Done(p, "Exec") /\ Exited(p) /\ child[p].code = 254
        /\ result[p].ok /\ result[p].value.exitCode = 254

\* C5 as stated: in Create, Check, Exec and Exit a fault of the execution layer
\* (the client cannot be spawned, spawn throws) ends in that operation's
\* UnknownError failure, never in a success value or another failure kind.
C5_FaultIsUnknownError ==
    \A p \in Callers :
        (pc[p] = "done" /\ op[p] \in {"Create", "Check", "Exec", "Exit"}
                        /\ child[p].kind \in {"error", "throw"})
            => FailsWith(p, "UnknownError")

C7_ExistenceCheckFirst ==
    \A p \in Callers :
        op[p] \in {"Check", "Exec", "Exit"}
            => /\ (pc[p] = "done" /\ saw[p] = "absent")
                    => (FailsWith(p, "SocketNotFound") /\ sshCalls[p] = 0)
               /\ (pc[p] = "ssh" \/ sshCalls[p] > 0) => saw[p] = "present"

C7_Witness ==
    \E p \in Callers :
        Done(p, "Exit") /\ saw[p] = "absent" /\ sshCalls[p] = 0
                        /\ FailsWith(p, "SocketNotFound")

C10_PublickeyIsPermissionDenied ==
    (cPc = "done" /\ cExit # 0 /\ Includes(cStderr, <<PermissionDenied, Publickey>>))
        => (~cResult.ok /\ cResult.failure = "PermissionDenied")

\* C11 as stated: whenever Create's SSH invocation exits nonzero with stderr
\* containing 'Could not resolve hostname', Create fails with HostNotFound.
C11_CouldNotResolveIsHostNotFound ==
    (cPc = "done" /\ cImpl \in CreateImpls /\ cExit # 0
        /\ Includes(cStderr, <<CouldNotResolve>>))
        => (~cResult.ok /\ cResult.failure = "HostNotFound")

\* the patterns SSHCreateSocketOp tries before the hostname patterns
BeforeHostname(stderr) ==
    \/ Includes(stderr, <<PermissionDenied>>)
    \/ Includes(stderr, <<AuthenticationFailed>>)
    \/ Includes(stderr, <<HostIdChanged>>)
    \/ Includes(stderr, <<HostKeyFailed>>)

\* C11: on a nonzero exit with stderr containing 'Could not resolve hostname'
\* and none of the patterns tried before it ('Permission denied',
\* 'Authentication failed', 'REMOTE HOST IDENTIFICATION HAS CHANGED', 'Host key
\* verification failed'), Create fails with HostNotFound, whatever else stderr
\* holds; with one of the earlier patterns it fails with that pattern's kind.
C11_FirstMatchHostNotFound ==
    (cPc = "done" /\ cImpl \in CreateImpls /\ cExit # 0
        /\ Includes(cStderr, <<CouldNotResolve>>))
        => /\ ~cResult.ok
           /\ cResult.failure = "HostNotFound" <=> ~BeforeHostname(cStderr)

C11_Witness ==
    /\ cPc = "done" /\ cImpl = "SSHCreateSocketOp.ts" /\ cExit = 255
    /\ cStderr = <<CouldNotResolve, ConnectionRefused>>
    /\ ~cResult.ok /\ cResult.failure = "HostNotFound"

\* TearDown's Exit step, resp. removal step, has returned a failure
ExitFailed(p) == ~exitOutcome[p].ok /\ exitOutcome[p].failure # "none"
RemoveFailed(p) == ~removeOutcome[p].ok /\ removeOutcome[p].failure # "none"

\* C12 as stated: TearDown absorbs Exit's SocketNotFound and the removal's
\* FileNotFound and nothing else; every other failure of a sub-operation, Exit's
\* UnknownError included, makes TearDown fail.
C12_OnlyTwoAbsorbed ==
    \A p \in Callers :
        Done(p, "TearDown")
            => /\ (ExitFailed(p) /\ exitOutcome[p].failure = "SocketNotFound") => result[p].ok
               /\ (RemoveFailed(p) /\ removeOutcome[p].failure = "FileNotFound") => result[p].ok
               /\ (ExitFailed(p) /\ exitOutcome[p].failure # "SocketNotFound") => ~result[p].ok
               /\ (RemoveFailed(p) /\ removeOutcome[p].failure # "FileNotFound") => ~result[p].ok

\* C12: TearDown never fails on account of Exit: Exit's SocketNotFound ends the
\* teardown with success {false, false} and no removal, and any other failure
\* of Exit (UnknownError) is ignored, the removal runs with exitedCleanly false
\* and alone decides the result.  Of the removal's failures FileNotFound is
\* absorbed (success, fileRemoved false) and every other one (PermissionDenied,
\* UnknownError) propagates as RemoveFailed with the removal's debug data.
C12_ExitIgnoredRemovePropagates ==
    \A p \in Callers :
        Done(p, "TearDown")
            => /\ (ExitFailed(p) /\ exitOutcome[p].failure = "SocketNotFound")
                    => (result[p] = NothingTornDown /\ rmCalls[p] = 0)
               /\ (ExitFailed(p) /\ exitOutcome[p].failure # "SocketNotFound")
                    => /\ exitOutcome[p].failure = "UnknownError"
                       /\ rmCalls[p] = 1
                       /\ result[p].ok <=> (removeOutcome[p].ok \/ removeOutcome[p].failure = "FileNotFound")
                       /\ result[p].ok => ~result[p].value.exitedCleanly
               /\ (RemoveFailed(p) /\ removeOutcome[p].failure = "FileNotFound")
                    => (result[p].ok /\ ~result[p].value.fileRemoved)
               /\ (RemoveFailed(p) /\ removeOutcome[p].failure # "FileNotFound")
                    => /\ removeOutcome[p].failure \in {"PermissionDenied", "UnknownError"}
                       /\ result[p] = Fail("RemoveFailed", removeOutcome[p].debugData)

C12_Witness ==
    \E p \in Callers :
        /\ Done(p, "TearDown")
        /\ ExitFailed(p) /\ exitOutcome[p].failure = "UnknownError"
        /\ removeOutcome[p].ok
        /\ result[p] = Succeed([exitedCleanly |-> FALSE, fileRemoved |-> TRUE])

\* C13: Validate never fails with SocketNotFound.  When Check's existence check
\* finds no file (Check's SocketNotFound) Validate returns success {valid:
\* false, status: not-found}; when Check returns alive or dead Validate returns
\* success {valid, status} with that status and valid true exactly for alive;
\* when Check fails otherwise (UnknownError) Validate fails with UnknownError.
C13_ValidateMapsCheck ==
    \A p \in Callers :
        Done(p, "Validate")
            => /\ ~FailsWith(p, "SocketNotFound")
               /\ saw[p] = "absent"
                    => result[p] = Succeed([valid |-> FALSE, status |-> "not-found"])
               /\ (saw[p] = "present" /\ child[p].kind = "throw")
                    => FailsWith(p, "UnknownError")
               /\ (saw[p] = "present" /\ child[p].kind # "throw")
                    => /\ result[p].ok
                       /\ result[p].value.status \in {"alive", "dead"}
                       /\ result[p].value.valid <=> result[p].value.status = "alive"
                       /\ result[p].value.status = "alive"
                            <=> (child[p].kind = "close" /\ child[p].code = 0)
               /\ ~result[p].ok => result[p].failure = "UnknownError"

C13_Witness ==
    \E p \in Callers :
        /\ Done(p, "Validate") /\ saw[p] = "present" /\ Exited(p) /\ child[p].code = 255
        /\ result[p] = Succeed([valid |-> FALSE, status |-> "dead"])

\* caller p takes the unlink step of operation o
Unlinks(p, o) == op[p] = o /\ pc[p] = "unlink" /\ pc'[p] = "done"

\* C14: RemoveSocketFile returns success exactly when unlink() succeeded, the
\* file having been there and being gone afterwards; ENOENT becomes
\* FileNotFound, EACCES and EPERM become PermissionDenied and every other error
\* UnknownError; on a path with no file the operation fails with FileNotFound.
C14_RemoveMapsUnlink ==
    [][\A p \in Callers :
        Unlinks(p, "Remove")
            => /\ result'[p].ok <=> unlinkErrno'[p] = "OK"
               /\ result'[p].ok => (result'[p].value = TRUE /\ fileExists /\ ~fileExists')
               /\ ~result'[p].ok => (fileExists' = fileExists)
               /\ unlinkErrno'[p] = "ENOENT" => result'[p].failure = "FileNotFound"
               /\ unlinkErrno'[p] \in {"EACCES", "EPERM"}
                    => result'[p].failure = "PermissionDenied"
               /\ unlinkErrno'[p] \notin {"OK", "ENOENT", "EACCES", "EPERM"}
                    => result'[p].failure = "UnknownError"
               /\ ~fileExists => (~result'[p].ok /\ result'[p].failure = "FileNotFound")]_vars

C14_Witness ==
    \E p \in Callers :
        /\ Done(p, "Remove") /\ ~fileExists
        /\ unlinkErrno[p] = "ENOENT" /\ FailsWith(p, "FileNotFound")

\* C15: RemoveSocketFile does nothing to the SSH master: its run starts no
\* external process, and the step that removes the file leaves the master as it
\* was, whether the removal succeeds or fails.
C15_RemoveLeavesMaster ==
    [][\A p \in Callers :
        Unlinks(p, "Remove")
            => /\ master' = master
               /\ sshCalls[p] = 0 /\ sshCalls'[p] = 0
               /\ child'[p] = NoChild
               /\ rmCalls'[p] = 1]_vars

C15_Witness ==
    \E p \in Callers :
        /\ Done(p, "Remove") /\ result[p] = Succeed(TRUE)
        /\ master = "alive" /\ ~fileExists
        /\ sshCalls[p] = 0 /\ child[p] = NoChild

\* what the documentation says of one character of the host
CharImage(c) ==
    IF c \in {"@", ".", ":"} THEN <<"-">> ELSE IF c \in Kept THEN <<c>> ELSE <<>>

RECURSIVE HostImage(_)
HostImage(host) ==
    IF host = <<>> THEN <<>> ELSE CharImage(Head(host)) \o HostImage(Tail(host))

ExamplePath ==
    <<"/", "t", "m", "p", "/", "s", "s", "h", "i", "t", "-", "c", "t", "r", "l", "-",
      "u", "s", "e", "r", "-", "1", "0", "-", "0", "-", "0", "-", "3">>

\* C16: with no explicit socket path, every call of the path resolution returns
\* the same path, which is '/tmp/sshit-ctrl-' followed by the host with each
\* '@', '.' and ':' replaced by '-' and each other character outside
\* [A-Za-z0-9-] removed; after the prefix it holds only [A-Za-z0-9-]; the empty
\* host gives the bare prefix and 'user@10.0.0.3' gives
\* '/tmp/sshit-ctrl-user-10-0-0-3'.
C16_PathFromHost ==
    (pPc = "on" /\ pSocketPath = NoPath)
        => \A i \in 1..Len(pPaths) :
            /\ pPaths[i] = pPaths[1]
            /\ pPaths[i] = Prefix \o HostImage(pHost)
            /\ SubSeq(pPaths[i], 1, Len(Prefix)) = Prefix
            /\ \A k \in (Len(Prefix) + 1)..Len(pPaths[i]) : pPaths[i][k] \in Kept
            /\ pHost = <<>> => pPaths[i] = Prefix
            /\ pHost = ExampleHost => pPaths[i] = ExamplePath

C16_Witness ==
    /\ pPc = "on" /\ pSocketPath = NoPath /\ pHost = ExampleHost
    /\ Len(pPaths) = ResolveCalls
    /\ pPaths[ResolveCalls] = ExamplePath

\* the SSH child of caller p is over: closed, or failed to start
ChildOver(p) == child[p].kind \in {"close", "error", "throw"}

\* C17 as stated: each operation (Create, Check, Exec, Exit, RemoveSocketFile,
\* TearDown, Validate) has issued exactly one external-process invocation when
\* it returns.
C17_ExactlyOneInvocation ==
    \A p \in Callers :
        (pc[p] = "done" /\ op[p] \in Ops) => sshCalls[p] = 1

\* C17: an operation issues at most one external-process invocation per run:
\* Create exactly one; Check, Exec, Exit, TearDown and Validate exactly one when
\* the existence check found the socket file and none when it did not;
\* RemoveSocketFile none.  No operation has a result while a step of it is
\* outstanding, and when it returns the process it invoked is over.
C17_AtMostOneInvocation ==
    \A p \in Callers :
        /\ pc[p] \in {"stat", "ssh", "unlink"} => result[p] = NoOutcome
        /\ pc[p] = "done"
            => /\ sshCalls[p] \in {0, 1}
               /\ op[p] = "Create" => sshCalls[p] = 1
               /\ op[p] \in {"Check", "Exec", "Exit", "TearDown", "Validate"}
                    => sshCalls[p] = (IF saw[p] = "present" THEN 1 ELSE 0)
               /\ op[p] = "Remove" => sshCalls[p] = 0
               /\ sshCalls[p] = 1 <=> ChildOver(p)
               /\ sshCalls[p] = 0 <=> child[p] = NoChild

C17_Witness ==
    \E p \in Callers :
        /\ Done(p, "TearDown") /\ saw[p] = "present"
        /\ sshCalls[p] = 1 /\ Exited(p) /\ rmCalls[p] = 1 /\ result[p].ok

\* the file caller p found at its existence check is gone before its next step
Vanished(p) == saw[p] = "present" /\ ~fileExists

\* C18: when the socket file found by the existence check has disappeared
\* before the SSH invocation or the unlink, the step is still taken and gives a
\* value of the operation's declared result type (for TearDown's Exit step, of
\* Exit's type); a TearDown whose unlink finds the file gone returns success
\* with fileRemoved false.
C18_ToleratesVanishedFile ==
    [][\A p \in Callers :
        Vanished(p)
            => /\ (pc[p] = "ssh" /\ pc'[p] = "done") => WellTyped(op[p], result'[p])
               /\ (pc[p] = "ssh" /\ pc'[p] = "unlink")
                    => (op[p] = "TearDown" /\ WellTyped("Exit", exitOutcome'[p]))
               /\ (pc[p] = "unlink" /\ pc'[p] = "done")
                    => /\ op[p] = "TearDown"
                       /\ WellTyped("TearDown", result'[p])
                       /\ result'[p].ok
                       /\ ~result'[p].value.fileRemoved]_vars

C18_Witness ==
    \E p \in Callers :
        /\ Done(p, "TearDown") /\ saw[p] = "present" /\ sshCalls[p] = 1 /\ ~snap[p]
        /\ unlinkErrno[p] = "ENOENT"
        /\ result[p] = Succeed([exitedCleanly |-> FALSE, fileRemoved |-> FALSE])

Says(phrase) == \E i \in 1..Len(cStderr) : cStderr[i] = phrase

\* the documented order of Exec's failure kinds for exit code 255
ExecOrder == <<"SocketNotFound", "ConnectionFailed", "Timeout", "SocketDead">>

ExecMatches(kind) ==
    CASE kind = "SocketNotFound" -> Says(NoSuchFileUpper) \/ Says(NoSuchFileLower)
      [] kind = "ConnectionFailed" -> Says(ConnectionRefused) \/ Says(ConnectionReset)
      [] kind = "Timeout" -> Says(OperationTimedOut) \/ Says(ConnectionTimedOut)
      [] kind = "SocketDead" -> Says(ControlSocket) /\ Says(Dead)

CreatePatterns ==
    {<<PermissionDenied, Publickey>>, <<PermissionDenied>>, <<AuthenticationFailed>>,
     <<HostIdChanged>>, <<HostKeyFailed>>, <<CouldNotResolve>>, <<NameNotKnown>>,
     <<ConnectionRefused>>, <<NetworkUnreachable>>, <<NoRouteToHost>>, <<BrokenPipe>>,
     <<OperationTimedOut>>, <<ConnectionTimedOut>>}

FromFirstEvent ==
    LET e == rEvents[1] IN
    IF e.kind = "error"
    THEN rResult.exitCode = 1 /\ rResult.stdout = <<>> /\ rResult.stderr = <<e.message>>
    ELSE rResult.exitCode = (IF e.code = NullCode THEN 1 ELSE e.code)

C23_SpawnFailureDistinct ==
    (rPromise = "resolved" /\ rEvents[1].kind = "error")
        => \A out \in SeqsUpTo(Chunks, MaxChunks), err \in SeqsUpTo(Chunks, MaxChunks) :
            rResult # CloseResult(1, out, err)

\* C24: every failure an operation returns is of its own enumeration: Check and
\* Exit SocketNotFound or UnknownError; Exec SocketNotFound, SocketDead,
\* ConnectionFailed, Timeout or UnknownError; RemoveSocketFile FileNotFound,
\* PermissionDenied or UnknownError; TearDown RemoveFailed or UnknownError, never
\* a kind of its sub-operations; Validate UnknownError.
C24_ClosedFailureKinds ==
    \A p \in Callers :
        (pc[p] = "done" /\ ~result[p].ok)
            => /\ op[p] \in {"Check", "Exit"}
                    => result[p].failure \in {"SocketNotFound", "UnknownError"}
               /\ op[p] = "Exec"
                    => result[p].failure \in {"SocketNotFound", "SocketDead",
                                              "ConnectionFailed", "Timeout", "UnknownError"}
               /\ op[p] = "Remove"
                    => result[p].failure \in {"FileNotFound", "PermissionDenied",
                                              "UnknownError"}
               /\ op[p] = "TearDown"
                    => /\ result[p].failure \in {"RemoveFailed", "UnknownError"}
                       /\ result[p].failure \notin {"SocketNotFound", "FileNotFound",
                                                    "PermissionDenied"}
               /\ op[p] = "Validate" => result[p].failure = "UnknownError"
               /\ result[p].failure \in Failures(op[p])

C24_Witness ==
    \E p \in Callers :
        /\ Done(p, "TearDown")
        /\ ~removeOutcome[p].ok /\ removeOutcome[p].failure = "PermissionDenied"
        /\ FailsWith(p, "RemoveFailed")

\* the entry point has run its operation and the process has ended
CliRan == kPc = "exited" /\ kOutcome \in Outcomes(kOp)

\* C25: the process of an operation's entry point, with --json and without,
\* ends with exit code 0 when the operation returned a success and with 1 when
\* it returned a failure; so Exec ends with 0 when the remote command returned
\* a nonzero code other than 255, and Validate ends with 0 for a dead or
\* not-found socket.
C25_ExitCodeFromOutcome ==
    CliRan
        => /\ kExit = (IF kOutcome.ok THEN 0 ELSE 1)
           /\ (kOp = "Exec" /\ kOutcome.ok) => kExit = 0
           /\ (kOp = "Validate" /\ kOutcome.ok) => kExit = 0

C25_Witness ==
    /\ CliRan /\ kOp = "Exec" /\ kJson
    /\ kOutcome.ok /\ kOutcome.value.exitCode = 254
    /\ kExit = 0

\* C26: in a TearDown run the Exit step comes first and has returned before
\* RemoveSocketFile is invoked; RemoveSocketFile is invoked once when Exit
\* returned success (true or false) or UnknownError, and not at all when Exit
\* returned SocketNotFound.
C26_ExitBeforeRemove ==
    \A p \in Callers :
        op[p] = "TearDown"
            => /\ pc[p] \in {"stat", "ssh"}
                    => (exitOutcome[p] = NoOutcome /\ rmCalls[p] = 0)
               /\ pc[p] = "unlink"
                    => /\ exitOutcome[p] # NoOutcome
                       /\ ~(ExitFailed(p) /\ exitOutcome[p].failure = "SocketNotFound")
                       /\ rmCalls[p] = 0
               /\ pc[p] = "done"
                    => /\ exitOutcome[p] # NoOutcome
                       /\ rmCalls[p] =
                            (IF ExitFailed(p) /\ exitOutcome[p].failure = "SocketNotFound"
                             THEN 0 ELSE 1)
                       /\ rmCalls[p] = 1 <=> removeOutcome[p] # NoOutcome

C26_Witness ==
    \E p \in Callers :
        /\ Done(p, "TearDown") /\ exitOutcome[p] = Succeed(TRUE)
        /\ rmCalls[p] = 1 /\ removeOutcome[p] = Succeed(TRUE)

\* caller p's TearDown has returned success {exitedCleanly: ec, fileRemoved: fr}
TornDownWith(p, ec, fr) ==
    Done(p, "TearDown") /\ result[p] = Succeed([exitedCleanly |-> ec, fileRemoved |-> fr])

\* C27: in a successful TearDown result exitedCleanly is the boolean of the Exit
\* step when Exit succeeded and false when Exit failed, and fileRemoved is true
\* exactly when this run's own RemoveSocketFile unlinked the file; after Exit's
\* SocketNotFound fileRemoved is false.
C27_TearDownResultFields ==
    \A p \in Callers :
        (Done(p, "TearDown") /\ result[p].ok)
            => /\ exitOutcome[p].ok
                    => result[p].value.exitedCleanly = exitOutcome[p].value
               /\ ~exitOutcome[p].ok => ~result[p].value.exitedCleanly
               /\ result[p].value.fileRemoved
                    <=> (rmCalls[p] = 1 /\ removeOutcome[p].ok /\ unlinkErrno[p] = "OK")
               /\ (ExitFailed(p) /\ exitOutcome[p].failure = "SocketNotFound")
                    => ~result[p].value.fileRemoved

\* the four combinations of the two booleans, each returned by some run
C27_CleanAndRemoved == \E p \in Callers : TornDownWith(p, TRUE, TRUE)
C27_UncleanAndRemoved == \E p \in Callers : TornDownWith(p, FALSE, TRUE)
C27_UncleanNotRemoved == \E p \in Callers : TornDownWith(p, FALSE, FALSE)

\* a clean exit of the master, which removes its socket file itself before
\* this run's unlink
C27_Witness ==
    \E p \in Callers :
        /\ TornDownWith(p, TRUE, FALSE)
        /\ exitOutcome[p] = Succeed(TRUE) /\ unlinkErrno[p] = "ENOENT"

\* C28 as stated: once TearDown has returned success the socket file is gone
\* and no live master remains (no Create runs beside the teardowns).
C28_TornDownCompletely ==
    \A p \in Callers :
        (Done(p, "TearDown") /\ result[p].ok)
            => (~fileExists /\ master # "alive")

\* C28: once TearDown has returned success the socket file is gone; no live
\* master remains when the result says exitedCleanly, while a master the exit
\* command did not reach may live on.
C28_FileGoneMasterGoneIfClean ==
    \A p \in Callers :
        (Done(p, "TearDown") /\ result[p].ok)
            => /\ ~fileExists
               /\ result[p].value.exitedCleanly => master # "alive"

\* a clean teardown of a live master, the file unlinked by this run
C28_Witness ==
    \E p \in Callers :
        /\ TornDownWith(p, TRUE, TRUE)
        /\ master = "exiting" /\ ~fileExists

Returned == rPc = "returned"
Terminated == rChild \in {"exited", "detached"}
FailedToSpawn == rChild \in {"failed", "threw"}

\* C29 as stated: an operation returns only after a 'close' or 'error' event of
\* its child (or a spawn that threw), never while a child that does not
\* terminate is out, and always once the child has terminated or failed to
\* spawn.
C29_ReturnsIffChildEnds ==
    /\ [](Returned => (CloseFired \/ ErrorFired \/ rChild = "threw"))
    /\ [](rChild = "hung" => (~Returned /\ rPromise = "pending"))
    /\ ((Terminated \/ FailedToSpawn) ~> Returned)

\* C29: an operation returns only after a 'close' or 'error' event of its child
\* (or a spawn that threw); it has not returned while the child runs, hangs or
\* has left its pipes to a descendant, whatever the timeout; and it always
\* returns once the child has ended with its pipes closed or failed to spawn.
C29_ReturnsIffCloseOrError ==
    /\ [](Returned => (CloseFired \/ ErrorFired \/ rChild = "threw"))
    /\ [](rChild \in {"running", "hung", "detached"} => (~Returned /\ rPromise = "pending"))
    /\ ((rChild = "exited" \/ FailedToSpawn) ~> Returned)

\* the operation resumed by the 'close' event of a child that ended although
\* the timeout passed to ssh was the short one
C29_Witness ==
    /\ Returned /\ CloseFired /\ ~ErrorFired
    /\ rChild = "exited" /\ rTimeout = 1

\* the teardowns that have returned success with fileRemoved: true
RemovedBy ==
    {p \in Callers : Logged(p) /\ tdLog[p].outcome.ok /\ tdLog[p].outcome.value.fileRemoved}

AllLogged == \A p \in Callers : Logged(p)

\* C30 as stated: when no unlink met a permission error (EACCES, EPERM), the
\* interleaved teardowns all return success and at most one reports
\* fileRemoved: true.
C30_BothSucceedWithoutPermissionError ==
    (AllLogged /\ \A p \in Callers : tdLog[p].unlinkErrno \notin {"EACCES", "EPERM"})
        => /\ \A p \in Callers : tdLog[p].outcome.ok
           /\ Cardinality(RemovedBy) <= 1

\* C30: a teardown whose unlink met no error other than the file being absent
\* returns success, however the runs interleave, and at most one of the
\* teardowns reports fileRemoved: true.
C30_SucceedUnlessUnlinkFails ==
    /\ \A p \in Callers :
        (Logged(p) /\ tdLog[p].unlinkErrno \in {"none", "OK", "ENOENT"})
            => tdLog[p].outcome.ok
    /\ \A p \in Callers :
        (Logged(p) /\ ~tdLog[p].outcome.ok)
            => tdLog[p].outcome.failure = "RemoveFailed"
    /\ Cardinality(RemovedBy) <= 1

\* one run had the master exit, the other unlinked the file before the first
\* run came to its own unlink
C30_Witness ==
    \E p, q \in Callers :
        /\ tdLog[p].outcome = Succeed([exitedCleanly |-> TRUE, fileRemoved |-> FALSE])
        /\ tdLog[p].unlinkErrno = "ENOENT"
        /\ tdLog[q].outcome = Succeed([exitedCleanly |-> FALSE, fileRemoved |-> TRUE])

\* a step leaves a settled promise and its result alone
StaysSettled ==
    rPromise \in {"resolved", "rejected"} => (rPromise' = rPromise /\ rResult' = rResult)

\* C31: when both the 'error' and the 'close' event of the child fire, the
\* result is the one of the event that fired first and the later call of
\* resolve() changes neither the result nor the state of the promise: a settled
\* promise stays as it was settled.
C31_FirstEventFixesResult ==
    /\ []((CloseFired /\ ErrorFired)
            => /\ rPromise = "resolved" /\ rResolves = 2
               /\ rResult = (IF rEvents[1].kind = "error"
                             THEN ErrorResult(rEvents[1].message)
                             ELSE CloseResult(rEvents[1].code, rStdoutChunks, rStderrChunks)))
    /\ [][StaysSettled]_vars

\* a failed spawn: 'error', then 'close' with the negative errno, and the
\* operation has the result of 'error'
C31_Witness ==
    /\ Returned
    /\ Len(rEvents) = 2 /\ rEvents[1].kind = "error" /\ rEvents[2].kind = "close"
    /\ rResult = ErrorResult(SpawnMessage)

\* the chunks of one pipe in the order they arrived
RECURSIVE ArrivedOn(_, _)
ArrivedOn(stream, emitted) ==
    IF emitted = <<>> THEN <<>>
    ELSE IF Head(emitted).stream = stream
    THEN <<Head(emitted).chunk>> \o ArrivedOn(stream, Tail(emitted))
    ELSE ArrivedOn(stream, Tail(emitted))

ResolvedOnClose == rPromise = "resolved" /\ rEvents[1].kind = "close"

\* C32: when the promise is resolved by the 'close' event, the captured stdout
\* is the text of the concatenation, in arrival order, of the chunks that
\* arrived on stdout before 'close', and the captured stderr that of the chunks
\* that arrived on stderr: no chunk is in the other stream's capture, dropped
\* or taken twice.
C32_CapturedInArrivalOrder ==
    /\ Len(rStdoutChunks) + Len(rStderrChunks) = Len(rEmitted)
    /\ ResolvedOnClose
        => /\ rResult.stdout = toString(Concat(ArrivedOn("stdout", rEmitted)))
           /\ rResult.stderr = toString(Concat(ArrivedOn("stderr", rEmitted)))

\* a character that came in two chunks of stdout is one character of the
\* captured stdout
C32_Witness ==
    /\ ResolvedOnClose /\ Returned
    /\ Len(rEmitted) >= 2
    /\ rEmitted[1] = [stream |-> "stdout", chunk |-> <<FirstHalf>>]
    /\ rEmitted[Len(rEmitted)] = [stream |-> "stdout", chunk |-> <<SecondHalf>>]
    /\ rResult.stdout = <<Character>>

ReadOnlyOps == {"Check", "Validate", "Exec"}

\* caller p takes a step of an operation of ReadOnlyOps
ReadOnlyStep(p) ==
    pc'[p] # pc[p] /\ (op[p] \in ReadOnlyOps \/ op'[p] \in ReadOnlyOps)

\* caller p's run ends in this step with SocketNotFound
EndsSocketNotFound(p) ==
    /\ pc[p] # "done" /\ pc'[p] = "done"
    /\ ~result'[p].ok /\ result'[p].failure = "SocketNotFound"

SameWorld == fileExists' = fileExists /\ master' = master

FrameOfProbes ==
    \A p \in Callers : (ReadOnlyStep(p) \/ EndsSocketNotFound(p)) => SameWorld

\* C33: no step of Check, Validate or Exec creates or deletes the socket file or
\* touches the master, and a run that returns SocketNotFound (Check, Exec or
\* Exit) has changed neither: Exit returns it only from its stat, before the
\* SSH client is run.
C33_ProbesLeaveWorldAlone ==
    /\ [][FrameOfProbes]_vars
    /\ [](\A p \in Callers :
            (Done(p, "Exit") /\ FailsWith(p, "SocketNotFound")) => sshCalls[p] = 0)

\* Exec has run the SSH client against a socket file whose master is dead and
\* returned SocketNotFound, the file still being there
C33_Witness ==
    \E p \in Callers :
        /\ Done(p, "Exec") /\ FailsWith(p, "SocketNotFound")
        /\ sshCalls[p] = 1 /\ fileExists /\ master = "dead"

ExplicitPath == pSocketPath.given /\ pSocketPath.text # <<>>

\* C34: Create uses an explicit socket path that is a non-empty string as it
\* is, and the path derived from the host when the explicit path is undefined
\* or the empty string; its first step is the SSH client, with no look at the
\* path before.
C34_ExplicitPathVerbatim ==
    /\ FirstStep("Create") = "ssh"
    /\ pPc = "on"
        => \A i \in 1..Len(pPaths) :
            /\ ExplicitPath => pPaths[i] = pSocketPath.text
            /\ pSocketPath \in {NoPath, Given(<<>>)} => pPaths[i] = Prefix \o HostImage(pHost)

\* an explicit path with characters the sanitisation of hosts would replace or
\* remove, returned as it is
C34_Witness ==
    /\ pPc = "on" /\ ExplicitPath /\ Len(pPaths) >= 1
    /\ pPaths[1] = pSocketPath.text
    /\ HostImage(pPaths[1]) # pPaths[1]

\* Create has run the SSH client on a path whose socket file was there, without
\* having looked at the path
C34_CreateOverExistingFile ==
    \E p \in Callers :
        /\ Done(p, "Create") /\ saw[p] = "unknown" /\ sshCalls[p] = 1
        /\ fileExists /\ ~result[p].ok

\* the empty string as explicit path falls back to the path of the host
C34_EmptyPathFallsBack ==
    /\ pPc = "on" /\ pSocketPath = Given(<<>>) /\ pHost # <<>> /\ Len(pPaths) >= 1
    /\ pPaths[1] = Prefix \o HostImage(pHost)

\* a step in which the menu of SSHitRootOp returns
MenuReturns == root.pc = "menu" /\ root'.pc # "menu"

\* the menu is shown again exactly on "Do not quit"; on "Quit" and on a failed
\* menu the next operation is an ExitOp of 1
ReshownOrHandedOver ==
    MenuReturns
        => IF root'.outcome = Succeed("Do not quit")
           THEN root'.pc = "run" /\ root'.next = This
           ELSE /\ root'.outcome = Succeed("Quit") \/ ~root'.outcome.ok
                /\ root'.pc = "exit" /\ root'.next = ExitOp(1)

RootOver == root.pc \in {"exit", "returned", "exited"}

\* C35: SSHitRootOp shows the same two-item menu again each time "Do not quit"
\* is selected; it is over only after "Quit" or a failed menu, and then the
\* operation it hands over to is an ExitOp with the value 1, which opsMain
\* returns as success.
C35_MenuUntilQuit ==
    /\ [][ReshownOrHandedOver]_vars
    /\ [](root.pc = "menu" => root.menu = Selections)
    /\ [](RootOver => /\ root.outcome = Succeed("Quit") \/ ~root.outcome.ok
                      /\ root.next = ExitOp(1))
    /\ [](root.pc \in {"returned", "exited"} => root.result = Succeed(1))
    /\ (root.pc = "run" ~> root.pc = "menu")
    /\ (RootOver ~> root.pc = "exited")

\* "Do not quit" twice, then Ctrl-C at the third menu
C35_Witness ==
    /\ root.pc = "exited" /\ root.shown = 3
    /\ root.outcome = Fail("canceled", <<>>)
    /\ root.result = Succeed(1)

\* a step that leaves the list alone, or appends one tunnel of status
\* 'starting' after a successful add and goes back to a new RootOp
GrowsByOneAdd ==
    \/ state'.tunnels = state.tunnels
    \/ /\ rootOp.pc = "add" /\ rootOp'.addResult.ok /\ rootOp'.pc = "run"
       /\ Len(state'.tunnels) = Len(state.tunnels) + 1
       /\ SubSeq(state'.tunnels, 1, Len(state.tunnels)) = state.tunnels
       /\ state'.tunnels[Len(state'.tunnels)].status = "starting"

\* a step of an add that succeeded appends; one of a failed add, of Quit or of
\* a failed menu does not
AppendsIffAdded ==
    /\ (rootOp.pc = "add" /\ rootOp'.pc # "add")
        => /\ rootOp'.pc = "run"
           /\ rootOp'.addResult.ok <=> Len(state'.tunnels) = Len(state.tunnels) + 1
    /\ (rootOp.pc = "menu" /\ rootOp'.pc = "ended") => state'.tunnels = state.tunnels

\* C36: the tunnel list starts with exactly one tunnel and only grows, by one
\* tunnel of status 'starting' for each successful AddSSHPortOp, after which a
\* new RootOp menu follows; a failed add, Quit and a failed menu leave it as it
\* is, and no tunnel in it is ever removed or changed.
C36_TunnelListOnlyGrows ==
    /\ [][GrowsByOneAdd /\ AppendsIffAdded]_vars
    /\ [](/\ Len(state.tunnels) = 1 + rootOp.added
          /\ state.tunnels[1] = InitialTunnel
          /\ \A i \in 2..Len(state.tunnels) : state.tunnels[i] = AddedTunnel)

\* an add, a failed add, then Quit: two tunnels
C36_Witness ==
    /\ rootOp.pc = "ended" /\ rootOp.menuResult = Succeed("Quit")
    /\ ~rootOp.addResult.ok
    /\ state.tunnels = <<InitialTunnel, AddedTunnel>>

====
